---- MODULE Spec2Model ----
(***************************************************************************)
(* Model of the python-service of PixelForgeAI: the detection pipeline of  *)
(* detection/detection_processor.py and the crop geometry of               *)
(* processing/image_processor.py.                                          *)
(*                                                                         *)
(* Confidences are integers in percent (0.4 is 40).  Every handler is one  *)
(* action that takes its request and the answers of the black-box          *)
(* detectors as inputs and records the response.  The service keeps no     *)
(* state between two requests, so one behaviour handles one request.       *)
(***************************************************************************)
EXTENDS Integers, Sequences, FiniteSets, TLC

VARIABLES
    enforce_consistency,  \* DetectionProcessor.enforce_consistency
    dpc,                  \* "idle" before, "done" after process_detection_request
    request,              \* the DetectionRequest and what the detectors answered
    run,                  \* the locals of process_detection_request
    response,             \* the DetectionResponse
    cpc,                  \* "idle" before, "done" after calculate_crop_coordinates
    crop_args,            \* the arguments of calculate_crop_coordinates
    crop,                 \* its outcome: a BoundingBox or the ValidationError
    spc,                  \* "idle" before, "done" after a sheet operation
    sheet_op,             \* the sheet operation that was called
    sheet_request,        \* the SheetCompositionRequest
    sheet,                \* its outcome: a ComposedSheet or the exception
    nms_history,          \* a detection list and what each NMS pass made of it
    bpc,                  \* "idle" before, "done" after process_batch
    batch_request,        \* the BatchProcessRequest
    batch,                \* its outcome: a BatchProcessResult or the exception
    threaded,             \* whether the requests run on threads of their own
    health,               \* the counters of the HealthMonitor singleton
    callers,              \* the calls of record_request: position and locals
    kpc,                  \* "idle" before, "done" after a candidate operation
    cand_op,              \* the candidate operation that was called
    cand_request,         \* its arguments and what cv2 and numpy answered
    cand_result           \* what it returned

vars == <<enforce_consistency, dpc, request, run, response, cpc, crop_args, crop,
          spc, sheet_op, sheet_request, sheet, nms_history,
          bpc, batch_request, batch, threaded, health, callers,
          kpc, cand_op, cand_request, cand_result>>

detVars == <<enforce_consistency, dpc, request, run, response>>
cropVars == <<cpc, crop_args, crop>>
sheetVars == <<spc, sheet_op, sheet_request, sheet>>
nmsVars == <<nms_history>>
batchVars == <<bpc, batch_request, batch>>
healthVars == <<threaded, health, callers>>
candVars == <<kpc, cand_op, cand_request, cand_result>>

(***************************************************************************)
(* Generic helpers                                                         *)
(***************************************************************************)
Min2(a, b) == IF a <= b THEN a ELSE b
Max2(a, b) == IF a >= b THEN a ELSE b

\* Python's built-in min() / max() over a non-empty collection of integers
MinOf(S) == CHOOSE m \in S : \A e \in S : m <= e
MaxOf(S) == CHOOSE m \in S : \A e \in S : m >= e

Range(s) == { s[i] : i \in 1..Len(s) }

\* all sequences over S of length at most n
SeqsUpTo(S, n) == UNION { [1..k -> S] : k \in 0..n }

FACE == "face"
PERSON == "person"

Box(x, y, w, h) == [x |-> x, y |-> y, width |-> w, height |-> h]

\* models.BoundingBox accepts x, y >= 0 and width, height > 0 and raises a
\* ValidationError otherwise
ValidBox(b) == b.x >= 0 /\ b.y >= 0 /\ b.width > 0 /\ b.height > 0

Det(t, c, b) == [type |-> t, confidence |-> c, bounding_box |-> b]

OfType(dets, t) == SelectSeq(dets, LAMBDA d : d.type = t)

(***************************************************************************)
(* detection/detection_processor.py                                        *)
(***************************************************************************)

\* _calculate_iou returns intersection / union as a float; the model keeps
\* the two integers and compares the quotient with a rational threshold.
Intersection(b1, b2) ==
    LET x1 == Max2(b1.x, b2.x)
        y1 == Max2(b1.y, b2.y)
        x2 == Min2(b1.x + b1.width, b2.x + b2.width)
        y2 == Min2(b1.y + b1.height, b2.y + b2.height)
    IN  IF x2 <= x1 \/ y2 <= y1 THEN 0 ELSE (x2 - x1) * (y2 - y1)

Union(b1, b2) ==
    b1.width * b1.height + b2.width * b2.height - Intersection(b1, b2)

\* _calculate_iou(b1, b2) > num / den
IoUAbove(b1, b2, num, den) ==
    /\ Union(b1, b2) > 0
    /\ Intersection(b1, b2) * den > num * Union(b1, b2)

\* sorted(detections, key=lambda d: d.confidence, reverse=True): a stable
\* sort, detections of equal confidence keep their input order
RECURSIVE InsertByConfidence(_, _)
InsertByConfidence(d, s) ==
    IF s = <<>> THEN <<d>>
    ELSE IF Head(s).confidence >= d.confidence
         THEN <<Head(s)>> \o InsertByConfidence(d, Tail(s))
         ELSE <<d>> \o s

RECURSIVE sorted_by_confidence(_)
sorted_by_confidence(s) ==
    IF s = <<>> THEN <<>>
    ELSE InsertByConfidence(s[Len(s)], sorted_by_confidence(SubSeq(s, 1, Len(s) - 1)))

\* cv2.dnn.NMSBoxes(boxes, confidences, 0.0, overlap_threshold): the
\* candidates with score > score_threshold are visited by descending score
\* (stable) and one is kept when its IoU with every box kept so far is at
\* most the threshold; indices come back in visiting order.
RECURSIVE NMSKeep(_, _, _, _)
NMSKeep(cands, kept, num, den) ==
    IF cands = <<>> THEN kept
    ELSE LET c == Head(cands)
             ok == \A i \in 1..Len(kept) :
                      ~IoUAbove(c.bounding_box, kept[i].bounding_box, num, den)
         IN  NMSKeep(Tail(cands), IF ok THEN Append(kept, c) ELSE kept, num, den)

NMSBoxes(dets, score_threshold, num, den) ==
    NMSKeep(sorted_by_confidence(
                SelectSeq(dets, LAMBDA d : d.confidence > score_threshold)),
            <<>>, num, den)

\* _apply_nms with valid_indices = [i for i in indices if 0 < i < len(detections)]:
\* the detection at index 0 is never returned
apply_nms_skip_index_0(detections) ==
    IF Len(detections) <= 1 THEN detections
    ELSE SelectSeq(NMSBoxes(detections, 0, 25, 100), LAMBDA d : d # detections[1])

\* overlap_threshold = 0.25
apply_nms(detections) ==
    IF Len(detections) <= 1 THEN detections
    ELSE NMSBoxes(detections, 0, 25, 100)

remove_overlapping_detections(detections) ==
    IF Len(detections) <= 1 THEN detections
    ELSE apply_nms(OfType(detections, FACE)) \o apply_nms(OfType(detections, PERSON))

\* the region of the image that _search_person_around_face hands to HOG
SearchRegion(image, face) ==
    LET fb == face.bounding_box
        estimated_body_height == fb.height * 6
        estimated_body_width == fb.width * 2
        search_x == Max2(0, fb.x - estimated_body_width \div 4)
        search_y == Max2(0, fb.y - fb.height \div 2)
    IN  [x |-> search_x, y |-> search_y,
         w |-> Min2(image.width - search_x, estimated_body_width),
         h |-> Min2(image.height - search_y, estimated_body_height)]

\* search_region.size == 0
EmptyRegion(r) == r.w <= 0 \/ r.h <= 0

NoPerson == [found |-> FALSE]

\* _search_person_around_face: hog is what hog.detectMultiScale does on the
\* region: "none" (no rectangle), "raise" (cv2 raises) or "rect", the best
\* rectangle, relative to the region.  face_in_body is abs_y <= face.y <= abs_y + h*0.4.
search_person_around_face(image, face, hog) ==
    LET fb == face.bounding_box
        r == SearchRegion(image, face)
    IN  IF EmptyRegion(r) THEN NoPerson
        ELSE IF hog.kind \in {"none", "raise"} THEN NoPerson
        ELSE LET abs_x == r.x + hog.x
                 abs_y == r.y + hog.y
                 face_in_body == /\ abs_y <= fb.y
                                 /\ 10 * fb.y <= 10 * abs_y + 4 * hog.height
                 bounding_box == Box(abs_x, abs_y, hog.width, hog.height)
             IN  IF face_in_body /\ ValidBox(bounding_box)
                 THEN [found |-> TRUE, person |-> Det(PERSON, 40, bounding_box)]
                 ELSE NoPerson

\* has_corresponding_person with the person box at its own height
has_corresponding_person_plain_height(face, existing_person_detections) ==
    LET fb == face.bounding_box
        face_center_x == fb.x + fb.width \div 2
        face_center_y == fb.y + fb.height \div 2
    IN  \E i \in 1..Len(existing_person_detections) :
           LET pb == existing_person_detections[i].bounding_box
           IN  /\ pb.x <= face_center_x
               /\ face_center_x <= pb.x + pb.width
               /\ pb.y <= face_center_y
               /\ face_center_y <= pb.y + pb.height

\* has_corresponding_person: the face center lies in a person box whose
\* height counts 1.2 times
has_corresponding_person(face, existing_person_detections) ==
    LET fb == face.bounding_box
        face_center_x == fb.x + fb.width \div 2
        face_center_y == fb.y + fb.height \div 2
    IN  \E i \in 1..Len(existing_person_detections) :
           LET pb == existing_person_detections[i].bounding_box
           IN  /\ pb.x <= face_center_x
               /\ face_center_x <= pb.x + pb.width
               /\ pb.y <= face_center_y
               /\ 10 * face_center_y <= 10 * pb.y + 12 * pb.height

\* the locals of _enhance_person_detection_around_faces: the list it
\* returns, the faces _search_person_around_face was called for, and the
\* person candidates these calls returned
Enhancement(enhanced_detections, searched, candidates) ==
    [enhanced_detections |-> enhanced_detections, searched |-> searched,
     candidates |-> candidates]

NoEnhancement == Enhancement(<<>>, <<>>, <<>>)

\* is_duplicate with the IoU compared with 0.5
IsDuplicate_above_half(person_candidate, others) ==
    \E i \in 1..Len(others) :
        IoUAbove(person_candidate.bounding_box, others[i].bounding_box, 5, 10)

\* is_duplicate of a person candidate against
\* existing_person_detections + enhanced_detections
IsDuplicate(person_candidate, others) ==
    \E i \in 1..Len(others) :
        IoUAbove(person_candidate.bounding_box, others[i].bounding_box, 3, 10)

\* the body of the loop for a face without corresponding person, given what
\* _search_person_around_face returned
AfterSearch(face, existing, acc, cand) ==
    IF ~cand.found
    THEN Enhancement(acc.enhanced_detections, Append(acc.searched, face), acc.candidates)
    ELSE IF IsDuplicate(cand.person, existing \o acc.enhanced_detections)
    THEN Enhancement(acc.enhanced_detections, Append(acc.searched, face),
                     Append(acc.candidates, cand.person))
    ELSE Enhancement(Append(acc.enhanced_detections, cand.person),
                     Append(acc.searched, face),
                     Append(acc.candidates, cand.person))

\* the loop of _enhance_person_detection_around_faces without the try of
\* _search_person_around_face: an exception of HOG ends the loop, the faces
\* after it are not searched
RECURSIVE EnhanceLoop_abort_on_raise(_, _, _, _, _)
EnhanceLoop_abort_on_raise(image, faces, existing, hogs, acc) ==
    IF faces = <<>> THEN acc
    ELSE IF /\ Head(faces).bounding_box \in DOMAIN hogs
            /\ hogs[Head(faces).bounding_box].kind = "raise"
    THEN acc
    ELSE EnhanceLoop_abort_on_raise(image, Tail(faces), existing, hogs,
             IF has_corresponding_person(Head(faces), existing) THEN acc
             ELSE AfterSearch(Head(faces), existing, acc,
                      search_person_around_face(image, Head(faces),
                                                hogs[Head(faces).bounding_box])))

\* _enhance_person_detection_around_faces: the loop over the faces, with its
\* locals as accumulator; hogs maps a face box to what HOG answers on its
\* search region
RECURSIVE EnhanceLoop(_, _, _, _, _)
EnhanceLoop(image, faces, existing, hogs, acc) ==
    IF faces = <<>> THEN acc
    ELSE EnhanceLoop(image, Tail(faces), existing, hogs,
             IF has_corresponding_person(Head(faces), existing) THEN acc
             ELSE AfterSearch(Head(faces), existing, acc,
                      search_person_around_face(image, Head(faces),
                                                hogs[Head(faces).bounding_box])))

enhance_person_detection_around_faces(image, face_detections, existing, hogs) ==
    EnhanceLoop(image, face_detections, existing, hogs, NoEnhancement)

\* _ensure_logical_consistency with the slice one too long
ensure_logical_consistency_one_more(face_detections, person_detections) ==
    IF Len(face_detections) <= Len(person_detections)
    THEN [faces |-> face_detections, people |-> person_detections]
    ELSE [faces |-> SubSeq(sorted_by_confidence(face_detections),
                           1, Len(person_detections) + 1),
          people |-> person_detections]

\* _ensure_logical_consistency sorting without reverse=True: the faces of
\* lowest confidence come first and are the ones kept
ensure_logical_consistency_ascending(face_detections, person_detections) ==
    IF Len(face_detections) <= Len(person_detections)
    THEN [faces |-> face_detections, people |-> person_detections]
    ELSE [faces |-> SubSeq(sorted_by_confidence(face_detections),
                           Len(face_detections) - Len(person_detections) + 1,
                           Len(face_detections)),
          people |-> person_detections]

\* _ensure_logical_consistency
ensure_logical_consistency(face_detections, person_detections) ==
    IF Len(face_detections) <= Len(person_detections)
    THEN [faces |-> face_detections, people |-> person_detections]
    ELSE IF Len(person_detections) = 0
    THEN [faces |-> <<>>, people |-> person_detections]
    ELSE [faces |-> SubSeq(sorted_by_confidence(face_detections),
                           1, Len(person_detections)),
          people |-> person_detections]

\* process_detection_request without the checks of os.path.exists and of
\* image is None
ImageLoads_unchecked(image) == TRUE

\* os.path.exists fails or cv2.imread returns None: the except branch
ImageLoads(image) == image.state = "decoded"

\* the detections at or above request.confidence_threshold
AboveThreshold(dets, threshold) ==
    SelectSeq(dets, LAMBDA d : d.confidence >= threshold)

\* the faces of a request for which the secondary search calls HOG
HogCalls(req, detect_faces, detect_persons) ==
    IF ~ImageLoads(req.image) \/ PERSON \notin req.detection_types THEN {}
    ELSE LET faces == IF FACE \in req.detection_types
                      THEN AboveThreshold(detect_faces, req.confidence_threshold)
                      ELSE <<>>
             persons == AboveThreshold(detect_persons, req.confidence_threshold)
         IN  IF Len(faces) <= Len(persons) THEN {}
             ELSE { faces[i].bounding_box : i \in
                      { j \in 1..Len(faces) :
                          /\ ~has_corresponding_person(faces[j], persons)
                          /\ ~EmptyRegion(SearchRegion(req.image, faces[j])) } }

\* process_detection_request, with the locals it computes; final_faces and
\* final_people are the post-NMS lists, checked tells whether
\* _ensure_logical_consistency was called on them
process_detection_request(enforce, req, detect_faces, detect_persons, hogs) ==
    IF ~ImageLoads(req.image)
    THEN [failed |-> TRUE,
          face_detections |-> <<>>, person_detections |-> <<>>,
          enhanced |-> <<>>, searched |-> <<>>, candidates |-> <<>>,
          all_detections |-> <<>>,
          final_faces |-> <<>>, final_people |-> <<>>,
          checked |-> FALSE,
          detections |-> <<>>,
          image_dimensions |-> [width |-> 0, height |-> 0]]
    ELSE
    LET face_detections ==
            IF FACE \in req.detection_types
            THEN AboveThreshold(detect_faces, req.confidence_threshold)
            ELSE <<>>
        persons ==
            IF PERSON \in req.detection_types
            THEN AboveThreshold(detect_persons, req.confidence_threshold)
            ELSE <<>>
        enhancement ==
            IF PERSON \in req.detection_types /\ Len(face_detections) > Len(persons)
            THEN enhance_person_detection_around_faces(req.image, face_detections,
                                                       persons, hogs)
            ELSE NoEnhancement
        enhanced == enhancement.enhanced_detections
        person_detections == persons \o enhanced
        all_detections == face_detections \o person_detections
        filtered_detections == remove_overlapping_detections(all_detections)
        final_faces == OfType(filtered_detections, FACE)
        final_people == OfType(filtered_detections, PERSON)
        consistent == ensure_logical_consistency(final_faces, final_people)
    IN  [failed |-> FALSE,
         face_detections |-> face_detections,
         person_detections |-> persons,
         enhanced |-> enhanced,
         searched |-> enhancement.searched,
         candidates |-> enhancement.candidates,
         all_detections |-> all_detections,
         final_faces |-> final_faces,
         final_people |-> final_people,
         checked |-> enforce /\ final_faces # <<>>,
         detections |-> IF enforce /\ final_faces # <<>>
                        THEN consistent.faces \o consistent.people
                        ELSE filtered_detections,
         image_dimensions |-> [width |-> req.image.width,
                               height |-> req.image.height]]

(***************************************************************************)
(* The requests and detector answers the detection pipeline is run on      *)
(***************************************************************************)
MaxFaces == 3
MaxPersons == 2

Image(state, w, h) == [state |-> state, width |-> w, height |-> h]

TestImage == Image("decoded", 20, 30)

\* what detect_faces may return: two faces on the same box, a third face
\* well apart with the confidence of the second, a fourth of low confidence
FaceUniverse ==
    { Det(FACE, 90, Box(2, 2, 4, 4)),
      Det(FACE, 60, Box(2, 2, 4, 4)),
      Det(FACE, 60, Box(12, 2, 4, 4)),
      Det(FACE, 40, Box(7, 14, 4, 4)) }

\* what detect_persons may return: a body around the first face, a short
\* body that overlaps the first, starts below the center of the first face
\* and reaches the center of the fourth face only with its height taken 1.2
\* times, a low-confidence body below the first face whose IoU with the body
\* HOG finds around that face (0, 0, 8, 24) is 56/206, between 0.25 and 0.3
PersonUniverse ==
    { Det(PERSON, 80, Box(0, 0, 10, 28)),
      Det(PERSON, 70, Box(0, 5, 10, 10)),
      Det(PERSON, 45, Box(0, 5, 10, 7)) }

\* what HOG may answer on a search region: nothing, an exception, a body
\* from the top of the region, a rectangle that starts below the face
Hog(kind, x, y, w, h) == [kind |-> kind, x |-> x, y |-> y, width |-> w, height |-> h]

HogAnswers ==
    { Hog("none", 0, 0, 0, 0), Hog("raise", 0, 0, 0, 0),
      Hog("rect", 0, 0, 8, 24), Hog("rect", 0, 6, 8, 12) }

Images == {Image("missing", 0, 0), Image("undecodable", 0, 0), TestImage}

Thresholds == {0, 50}

Requests ==
    [image : Images, detection_types : SUBSET {FACE, PERSON},
     confidence_threshold : Thresholds]

\* detectors that are not called answer nothing
FaceAnswers(req) ==
    IF ImageLoads(req.image) /\ FACE \in req.detection_types
    THEN SeqsUpTo(FaceUniverse, MaxFaces) ELSE {<<>>}

PersonAnswers(req) ==
    IF ImageLoads(req.image) /\ PERSON \in req.detection_types
    THEN SeqsUpTo(PersonUniverse, MaxPersons) ELSE {<<>>}

(***************************************************************************)
(* The detection service                                                   *)
(***************************************************************************)
NoRun == process_detection_request(FALSE, [image |-> Image("missing", 0, 0),
             detection_types |-> {}, confidence_threshold |-> 0], <<>>, <<>>, <<>>)

NoRequest ==
    [image |-> Image("missing", 0, 0), detection_types |-> {},
     confidence_threshold |-> 0,
     detect_faces |-> <<>>, detect_persons |-> <<>>, hogs |-> <<>>]

DetInit ==
    /\ enforce_consistency \in BOOLEAN
    /\ dpc = "idle"
    /\ request = NoRequest
    /\ run = NoRun
    /\ response = [detections |-> <<>>, image_dimensions |-> [width |-> 0, height |-> 0]]

ProcessDetectionRequest ==
    /\ dpc = "idle"
    /\ \E req \in Requests :
         \E detect_faces \in FaceAnswers(req), detect_persons \in PersonAnswers(req) :
           \E hogs \in [HogCalls(req, detect_faces, detect_persons) -> HogAnswers] :
             LET r == process_detection_request(enforce_consistency, req,
                                                detect_faces, detect_persons, hogs)
             IN  /\ request' = [image |-> req.image,
                                detection_types |-> req.detection_types,
                                confidence_threshold |-> req.confidence_threshold,
                                detect_faces |-> detect_faces,
                                detect_persons |-> detect_persons,
                                hogs |-> hogs]
                 /\ run' = r
                 /\ response' = [detections |-> r.detections,
                                 image_dimensions |-> r.image_dimensions]
    /\ dpc' = "done"
    /\ UNCHANGED enforce_consistency



(***************************************************************************)
(* processing/image_processor.py: calculate_crop_coordinates               *)
(*                                                                         *)
(* target_ratio = tw / th is an IEEE-754 double, and the crop sizes are    *)
(* int(crop_height * target_ratio) and int(crop_width / target_ratio).     *)
(* The model computes these truncations exactly as the doubles do, with    *)
(* integers only: the rounding error of fl(tw/th) is s * 2^-k / th, where  *)
(* k = 52 - floor(log2(tw/th)) and s comes from the remainder of           *)
(* tw * 2^k by th; when the exact product or quotient is the integer n,    *)
(* the double result lies below n, and truncates to n - 1, exactly when    *)
(* the error pushes it past the midpoint between n and the double before n.*)
(***************************************************************************)
RECURSIVE Pow2(_)
Pow2(n) == IF n <= 0 THEN 1 ELSE 2 * Pow2(n - 1)

\* 2^k modulo m
RECURSIVE Pow2Mod(_, _)
Pow2Mod(k, m) == IF k <= 0 THEN 1 % m ELSE (2 * Pow2Mod(k - 1, m)) % m

\* the exponent of the double num/den: the a with 2^a <= num/den < 2^(a+1)
RECURSIVE FloorLog2From(_, _, _)
FloorLog2From(num, den, a) ==
    IF a >= 0
    THEN IF num >= den * Pow2(a + 1) THEN FloorLog2From(num, den, a + 1) ELSE a
    ELSE IF num * Pow2(-a) < den THEN FloorLog2From(num, den, a - 1) ELSE a

FloorLog2(num, den) ==
    IF num >= den THEN FloorLog2From(num, den, 0) ELSE FloorLog2From(num, den, -1)

IsPow2(n) == n = Pow2(FloorLog2(n, 1))

\* target_ratio = target_aspect_ratio.width / target_aspect_ratio.height,
\* rounded to nearest-even at 53 bits: its exponent a and its signed error
\* s, in units of 2^-(52-a) / th
target_ratio(tw, th) ==
    LET a == FloorLog2(tw, th)
        rr == (tw * Pow2Mod(52 - a, 2 * th)) % (2 * th)
        r == rr % th
        odd == rr >= th
    IN  [a |-> a,
         s |-> IF 2 * r > th \/ (2 * r = th /\ odd) THEN th - r ELSE -r]

\* lhs > c * 2^e, for an exponent e of either sign
AboveScaled(lhs, c, e) ==
    IF e >= 0 THEN lhs > c * Pow2(e) ELSE lhs * Pow2(-e) > c

\* the exponent of the half distance between n and the double before n,
\* relative to the unit of the error of target_ratio
HalfGapExp(n, a) ==
    IF IsPow2(n) THEN FloorLog2(n, 1) - a - 2 ELSE FloorLog2(n, 1) - a - 1

\* int(crop_height * target_ratio)
int_times_ratio(h, tw, th) ==
    LET n == (h * tw) \div th
        q == target_ratio(tw, th)
    IN  IF (h * tw) % th # 0 THEN n
        ELSE IF q.s < 0 /\ AboveScaled(h * (-q.s), th, HalfGapExp(n, q.a))
             THEN n - 1 ELSE n

\* int(crop_width / target_ratio)
int_over_ratio(w, tw, th) ==
    LET n == (w * th) \div tw
        q == target_ratio(tw, th)
    IN  IF (w * th) % tw # 0 THEN n
        ELSE IF q.s > 0 /\ AboveScaled(n * q.s, tw, HalfGapExp(n, q.a))
             THEN n - 1 ELSE n

CENTER == "center"
CENTER_FACES == "center_faces"
PRESERVE_ALL == "preserve_all"

\* weight = detection.confidence * (bbox.width * bbox.height), in percent
Weight(d) == d.confidence * (d.bounding_box.width * d.bounding_box.height)

\* the sums total_weight, total_x and total_y of _center_on_detections
RECURSIVE TotalWeight(_)
TotalWeight(s) == IF s = <<>> THEN 0 ELSE Weight(Head(s)) + TotalWeight(Tail(s))

RECURSIVE TotalX(_)
TotalX(s) ==
    IF s = <<>> THEN 0
    ELSE (Head(s).bounding_box.x + Head(s).bounding_box.width \div 2) * Weight(Head(s))
         + TotalX(Tail(s))

RECURSIVE TotalY(_)
TotalY(s) ==
    IF s = <<>> THEN 0
    ELSE (Head(s).bounding_box.y + Head(s).bounding_box.height \div 2) * Weight(Head(s))
         + TotalY(Tail(s))

\* _center_on_detections; the weights confidence * area are taken in
\* percent and the weighted mean is computed exactly
center_on_detections(detections, crop_width, crop_height, img_width, img_height) ==
    IF detections = <<>>
    THEN [x |-> (img_width - crop_width) \div 2,
          y |-> (img_height - crop_height) \div 2]
    ELSE
    LET total_weight == TotalWeight(detections)
        center_x == IF total_weight > 0
                    THEN TotalX(detections) \div total_weight
                    ELSE img_width \div 2
        center_y == IF total_weight > 0
                    THEN TotalY(detections) \div total_weight
                    ELSE img_height \div 2
    IN  [x |-> center_x - crop_width \div 2,
         y |-> center_y - crop_height \div 2]

\* the enclosing box taken over the top-left corners only, the widths and
\* heights of the boxes forgotten
DetectionBounds_corners(detections) ==
    [min_x |-> MinOf({ d.bounding_box.x : d \in Range(detections) }),
     min_y |-> MinOf({ d.bounding_box.y : d \in Range(detections) }),
     max_x |-> MaxOf({ d.bounding_box.x : d \in Range(detections) }),
     max_y |-> MaxOf({ d.bounding_box.y : d \in Range(detections) })]

\* the box enclosing all detections, as its four extremes
DetectionBounds(detections) ==
    [min_x |-> MinOf({ d.bounding_box.x : d \in Range(detections) }),
     min_y |-> MinOf({ d.bounding_box.y : d \in Range(detections) }),
     max_x |-> MaxOf({ d.bounding_box.x + d.bounding_box.width :
                         d \in Range(detections) }),
     max_y |-> MaxOf({ d.bounding_box.y + d.bounding_box.height :
                         d \in Range(detections) })]

\* _preserve_all_detections falling back to the middle of the image when
\* the detections do not fit the crop
preserve_all_detections_image_center(detections, crop_width, crop_height, img_width, img_height) ==
    LET min_x == MinOf({ d.bounding_box.x : d \in Range(detections) })
        min_y == MinOf({ d.bounding_box.y : d \in Range(detections) })
        max_x == MaxOf({ d.bounding_box.x + d.bounding_box.width :
                           d \in Range(detections) })
        max_y == MaxOf({ d.bounding_box.y + d.bounding_box.height :
                           d \in Range(detections) })
        x0 == (min_x + max_x) \div 2 - crop_width \div 2
        y0 == (min_y + max_y) \div 2 - crop_height \div 2
        x1 == IF x0 > min_x THEN min_x ELSE x0
        y1 == IF y0 > min_y THEN min_y ELSE y0
    IN  IF detections = <<>>
           \/ max_x - min_x > crop_width \/ max_y - min_y > crop_height
        THEN [x |-> (img_width - crop_width) \div 2,
              y |-> (img_height - crop_height) \div 2]
        ELSE [x |-> IF x1 + crop_width < max_x THEN max_x - crop_width ELSE x1,
              y |-> IF y1 + crop_height < max_y THEN max_y - crop_height ELSE y1]

\* _preserve_all_detections
preserve_all_detections(detections, crop_width, crop_height, img_width, img_height) ==
    IF detections = <<>>
    THEN [x |-> (img_width - crop_width) \div 2,
          y |-> (img_height - crop_height) \div 2]
    ELSE
    LET b == DetectionBounds(detections)
        center_x == (b.min_x + b.max_x) \div 2
        center_y == (b.min_y + b.max_y) \div 2
        x0 == center_x - crop_width \div 2
        y0 == center_y - crop_height \div 2
        detection_width == b.max_x - b.min_x
        detection_height == b.max_y - b.min_y
        x1 == IF x0 > b.min_x THEN b.min_x ELSE x0
        y1 == IF y0 > b.min_y THEN b.min_y ELSE y0
        x2 == IF x1 + crop_width < b.max_x THEN b.max_x - crop_width ELSE x1
        y2 == IF y1 + crop_height < b.max_y THEN b.max_y - crop_height ELSE y1
    IN  IF detection_width > crop_width \/ detection_height > crop_height
        THEN [x |-> x0, y |-> y0]
        ELSE [x |-> x2, y |-> y2]

\* `not detections`: None or the empty list
NoDetections(a) == ~a.given \/ a.detections = <<>>

\* the crop size with the ratio applied the wrong way round: the height
\* divided and the width multiplied by target_ratio
CropSize_inverted(img_width, img_height, tw, th) ==
    LET wider == img_width * th > tw * img_height
        crop_height == IF wider THEN img_height
                       ELSE int_times_ratio(img_width, tw, th)
        crop_width == IF wider THEN int_over_ratio(img_height, tw, th)
                      ELSE img_width
    IN  [width |-> Min2(crop_width, img_width),
         height |-> Min2(crop_height, img_height)]

\* the crop size: the first half of calculate_crop_coordinates
CropSize(img_width, img_height, tw, th) ==
    LET wider == img_width * th > tw * img_height  \* current_ratio > target_ratio
        crop_height == IF wider THEN img_height
                       ELSE int_over_ratio(img_width, tw, th)
        crop_width == IF wider THEN int_times_ratio(img_height, tw, th)
                      ELSE img_width
    IN  [width |-> Min2(crop_width, img_width),
         height |-> Min2(crop_height, img_height)]

\* the crop position with the center taken as W // 2 - cw // 2
CropPosition_halves(a, crop_width, crop_height) ==
    LET img_width == a.image_size[1]
        img_height == a.image_size[2]
        centered == [x |-> img_width \div 2 - crop_width \div 2,
                     y |-> img_height \div 2 - crop_height \div 2]
        faces == OfType(a.detections, FACE)
        persons == OfType(a.detections, PERSON)
        target_detections == IF faces # <<>> THEN faces ELSE persons
    IN  IF a.strategy = CENTER \/ NoDetections(a) THEN centered
        ELSE IF a.strategy = CENTER_FACES
        THEN center_on_detections(target_detections, crop_width, crop_height,
                                  img_width, img_height)
        ELSE preserve_all_detections(a.detections, crop_width, crop_height,
                                     img_width, img_height)

\* the crop position with CENTER_FACES centering on every detection, faces
\* and persons alike
CropPosition_all_detections(a, crop_width, crop_height) ==
    LET img_width == a.image_size[1]
        img_height == a.image_size[2]
        centered == [x |-> (img_width - crop_width) \div 2,
                     y |-> (img_height - crop_height) \div 2]
    IN  IF a.strategy = CENTER \/ NoDetections(a) THEN centered
        ELSE IF a.strategy = CENTER_FACES
        THEN center_on_detections(a.detections, crop_width, crop_height,
                                  img_width, img_height)
        ELSE preserve_all_detections(a.detections, crop_width, crop_height,
                                     img_width, img_height)

\* the crop position before the final clamp
CropPosition(a, crop_width, crop_height) ==
    LET img_width == a.image_size[1]
        img_height == a.image_size[2]
        centered == [x |-> (img_width - crop_width) \div 2,
                     y |-> (img_height - crop_height) \div 2]
        faces == OfType(a.detections, FACE)
        persons == OfType(a.detections, PERSON)
        target_detections == IF faces # <<>> THEN faces ELSE persons
    IN  IF a.strategy = CENTER \/ NoDetections(a) THEN centered
        ELSE IF a.strategy = CENTER_FACES
        THEN IF target_detections # <<>>
             THEN center_on_detections(target_detections, crop_width, crop_height,
                                       img_width, img_height)
             ELSE centered
        ELSE IF a.strategy = PRESERVE_ALL
        THEN preserve_all_detections(a.detections, crop_width, crop_height,
                                     img_width, img_height)
        ELSE centered

\* calculate_crop_coordinates without the final clamp to the image
calculate_crop_coordinates_unclamped(a) ==
    LET size == CropSize(a.image_size[1], a.image_size[2],
                         a.target_aspect_ratio[1], a.target_aspect_ratio[2])
        pos == CropPosition(a, size.width, size.height)
    IN  [raised |-> ~ValidBox(Box(pos.x, pos.y, size.width, size.height)),
         x |-> pos.x, y |-> pos.y,
         width |-> size.width, height |-> size.height]

\* calculate_crop_coordinates(image_size, target_aspect_ratio, detections,
\* strategy); raised tells that BoundingBox(...) raised its ValidationError
calculate_crop_coordinates(a) ==
    LET img_width == a.image_size[1]
        img_height == a.image_size[2]
        size == CropSize(img_width, img_height,
                         a.target_aspect_ratio[1], a.target_aspect_ratio[2])
        pos == CropPosition(a, size.width, size.height)
        x == Max2(0, Min2(pos.x, img_width - size.width))
        y == Max2(0, Min2(pos.y, img_height - size.height))
        box == Box(x, y, size.width, size.height)
    IN  [raised |-> ~ValidBox(box), x |-> x, y |-> y,
         width |-> size.width, height |-> size.height]

(***************************************************************************)
(* The arguments calculate_crop_coordinates is run on                      *)
(***************************************************************************)
MaxSide == 5     \* images with detections have sides 1..MaxSide
MaxDets == 2     \* and at most MaxDets detections
MaxDim == 52     \* images without detections have sides 1..MaxDim
MaxRatio == 2    \* target ratios tw:th with tw, th in 1..MaxRatio

\* the detections handed to the crop: faces and persons, small and large,
\* one of confidence 0, one that leaves every image narrower than 7
CropUniverse ==
    { Det(FACE, 100, Box(0, 0, 1, 1)),
      Det(FACE, 50, Box(3, 2, 2, 2)),
      Det(FACE, 0, Box(4, 4, 1, 1)),
      Det(PERSON, 100, Box(1, 1, 2, 3)),
      Det(PERSON, 50, Box(0, 0, 5, 4)),
      Det(PERSON, 100, Box(4, 0, 3, 1)) }

Strategies == {CENTER, CENTER_FACES, PRESERVE_ALL}

Args(size, ratio, given, detections, strategy) ==
    [image_size |-> size, target_aspect_ratio |-> ratio, given |-> given,
     detections |-> detections, strategy |-> strategy]

Ratios == (1..MaxRatio) \X (1..MaxRatio)

\* small images, every strategy, detections absent (None) or a list
SmallArgs ==
    { Args(size, ratio, TRUE, dets, strategy) :
        size \in (1..MaxSide) \X (1..MaxSide), ratio \in Ratios,
        dets \in SeqsUpTo(CropUniverse, MaxDets), strategy \in Strategies }
    \cup
    { Args(size, ratio, FALSE, <<>>, strategy) :
        size \in (1..MaxSide) \X (1..MaxSide), ratio \in Ratios,
        strategy \in Strategies }

\* larger images without detections
PlainArgs ==
    { Args(size, ratio, FALSE, <<>>, CENTER) :
        size \in (1..MaxDim) \X (1..MaxDim), ratio \in Ratios }

\* the photo formats of the tests, and ratios whose double is not exact
Scenes ==
    { Args(<<800, 600>>, <<16, 9>>, FALSE, <<>>, CENTER),
      Args(<<800, 600>>, <<4, 3>>, FALSE, <<>>, CENTER),
      Args(<<800, 600>>, <<1, 1>>, TRUE,
           <<Det(PERSON, 90, Box(0, 0, 800, 600))>>, PRESERVE_ALL),
      Args(<<800, 600>>, <<4, 3>>, TRUE,
           <<Det(FACE, 90, Box(100, 100, 50, 60)),
             Det(FACE, 80, Box(600, 400, 60, 70))>>, PRESERVE_ALL),
      Args(<<800, 600>>, <<1, 1>>, TRUE,
           <<Det(PERSON, 80, Box(300, 200, 200, 300))>>, CENTER_FACES),
      Args(<<10, 3>>, <<16, 9>>, FALSE, <<>>, CENTER),
      Args(<<2, 49>>, <<1, 49>>, FALSE, <<>>, CENTER),
      Args(<<35, 20>>, <<7, 3>>, FALSE, <<>>, CENTER),
      Args(<<70, 45>>, <<7, 5>>, FALSE, <<>>, CENTER) }

CropArgs == SmallArgs \cup PlainArgs \cup Scenes

NoArgs == Args(<<1, 1>>, <<1, 1>>, FALSE, <<>>, CENTER)

NoCrop == [raised |-> FALSE, x |-> 0, y |-> 0, width |-> 0, height |-> 0]

CropInit ==
    /\ cpc = "idle"
    /\ crop_args = NoArgs
    /\ crop = NoCrop

CalculateCropCoordinates ==
    /\ cpc = "idle"
    /\ \E a \in CropArgs :
         /\ crop_args' = a
         /\ crop' = calculate_crop_coordinates(a)
    /\ cpc' = "done"

(***************************************************************************)
(* Sheet composition: composition/sheet_composer.py and the compose-sheet  *)
(* endpoint of main.py.  An image file is a record: its state says whether *)
(* the path exists and whether PIL can open it, width and height are the   *)
(* pixel size of the opened image.                                         *)
(***************************************************************************)
A4_WIDTH_PX == 2480
A4_HEIGHT_PX == 3508
MARGIN_PX == 150

\* padding = 20 in _resize_image_to_fit
PADDING_PX == 20

PORTRAIT == "portrait"
LANDSCAPE == "landscape"
IMAGE == "image"
PDF == "pdf"

SheetImage(state, w, h) == [state |-> state, width |-> w, height |-> h]

Grid(rows, columns) == [rows |-> rows, columns |-> columns]

\* _get_sheet_dimensions
get_sheet_dimensions(orientation) ==
    IF orientation = PORTRAIT
    THEN [width |-> A4_WIDTH_PX, height |-> A4_HEIGHT_PX]
    ELSE [width |-> A4_HEIGHT_PX, height |-> A4_WIDTH_PX]

\* _calculate_cell_dimensions
calculate_cell_dimensions(sheet_width, sheet_height, grid_layout) ==
    LET usable_width == sheet_width - 2 * MARGIN_PX
        usable_height == sheet_height - 2 * MARGIN_PX
    IN  [width |-> usable_width \div grid_layout.columns,
         height |-> usable_height \div grid_layout.rows]

\* _resize_image_to_fit with the padding subtracted from the wrong side
resize_image_to_fit_no_padding(image, max_width, max_height) ==
    LET width_first == max_width * image.height <= max_height * image.width
        num == IF width_first THEN max_width ELSE max_height
        den == IF width_first THEN image.width ELSE image.height
        new_width == int_times_ratio(image.width, num, den)
        new_height == int_times_ratio(image.height, num, den)
    IN  [raised |-> new_width < 1 \/ new_height < 1,
         width |-> new_width, height |-> new_height]

\* _resize_image_to_fit: scale_factor = min(target_width / image.width,
\* target_height / image.height) is the double of the smaller quotient, and
\* the new sizes are int(image.width * scale_factor) and
\* int(image.height * scale_factor).  Image.resize raises ValueError
\* ("height and width must be > 0") when a new size is 0.
resize_image_to_fit(image, max_width, max_height) ==
    LET target_width == max_width - 2 * PADDING_PX
        target_height == max_height - 2 * PADDING_PX
        width_first == target_width * image.height <= target_height * image.width
        num == IF width_first THEN target_width ELSE target_height
        den == IF width_first THEN image.width ELSE image.height
        new_width == int_times_ratio(image.width, num, den)
        new_height == int_times_ratio(image.height, num, den)
    IN  [raised |-> new_width < 1 \/ new_height < 1,
         width |-> new_width, height |-> new_height]

\* one entry of arranged_images: the resized image (index is its place in
\* the input list, from 0) and its position on the pixel canvas
Placement(i, resized, x_pos, y_pos) ==
    [index |-> i, width |-> resized.width, height |-> resized.height,
     x |-> x_pos, y |-> y_pos]

Arranged(raised, placements) == [raised |-> raised, placements |-> placements]

\* _arrange_images_in_grid filling the grid column by column
RECURSIVE ArrangeLoop_column_major(_, _, _, _, _, _)
ArrangeLoop_column_major(images, grid_layout, cell_width, cell_height, i, arranged) ==
    IF i >= Len(images) THEN Arranged(FALSE, arranged)
    ELSE LET row == i % grid_layout.rows
             col == i \div grid_layout.rows
             resized == resize_image_to_fit(images[i + 1], cell_width, cell_height)
             x_pos == MARGIN_PX + col * cell_width + (cell_width - resized.width) \div 2
             y_pos == MARGIN_PX + row * cell_height + (cell_height - resized.height) \div 2
         IN  IF col >= grid_layout.columns THEN Arranged(FALSE, arranged)
             ELSE IF resized.raised THEN Arranged(TRUE, arranged)
             ELSE ArrangeLoop_column_major(images, grid_layout, cell_width, cell_height, i + 1,
                              Append(arranged, Placement(i, resized, x_pos, y_pos)))

\* the loop of _arrange_images_in_grid from image i on (i counts from 0)
RECURSIVE ArrangeLoop(_, _, _, _, _, _)
ArrangeLoop(images, grid_layout, cell_width, cell_height, i, arranged) ==
    IF i >= Len(images) THEN Arranged(FALSE, arranged)
    ELSE LET row == i \div grid_layout.columns
             col == i % grid_layout.columns
             resized == resize_image_to_fit(images[i + 1], cell_width, cell_height)
             x_pos == MARGIN_PX + col * cell_width + (cell_width - resized.width) \div 2
             y_pos == MARGIN_PX + row * cell_height + (cell_height - resized.height) \div 2
         IN  IF row >= grid_layout.rows THEN Arranged(FALSE, arranged)
             ELSE IF resized.raised THEN Arranged(TRUE, arranged)
             ELSE ArrangeLoop(images, grid_layout, cell_width, cell_height, i + 1,
                              Append(arranged, Placement(i, resized, x_pos, y_pos)))

\* _arrange_images_in_grid
arrange_images_in_grid(images, grid_layout, cell_width, cell_height) ==
    ArrangeLoop(images, grid_layout, cell_width, cell_height, 0, <<>>)

(***************************************************************************)
(* The PDF target.  Lengths on the page are kept in hundredths of a point  *)
(* (the code computes them as doubles); a division rounds down to the      *)
(* hundredth.  One pixel is 72/300 point, 24 hundredths.                   *)
(***************************************************************************)
\* reportlab's A4 = (210 mm, 297 mm) = (595.28, 841.89) points
A4_WIDTH_PT == 59528
A4_HEIGHT_PT == 84189

\* MARGIN_PT = 36
MARGIN_PT == 3600

\* max_width_pt = cell_width_pt - 20
PADDING_PT == 2000

\* (image.width * 72) / 300
PX_TO_PT == 24

\* _calculate_pdf_image_size: the image scaled by min(max_width_pt /
\* image_width_pt, max_height_pt / image_height_pt)
calculate_pdf_image_size(image, max_width_pt, max_height_pt) ==
    LET width_first == max_width_pt * image.height <= max_height_pt * image.width
    IN  IF width_first
        THEN [width |-> max_width_pt,
              height |-> (image.height * max_width_pt) \div image.width]
        ELSE [width |-> (image.width * max_height_pt) \div image.height,
              height |-> max_height_pt]

\* the loop of _create_pdf_sheet: what c.drawImage is called with for the
\* i-th arranged image (x, y is the lower left corner, y grows upwards)
PdfPlacement(arranged, grid_layout, orientation, i) ==
    LET page_width == IF orientation = PORTRAIT THEN A4_WIDTH_PT ELSE A4_HEIGHT_PT
        page_height == IF orientation = PORTRAIT THEN A4_HEIGHT_PT ELSE A4_WIDTH_PT
        usable_width == page_width - 2 * MARGIN_PT
        usable_height == page_height - 2 * MARGIN_PT
        cell_width_pt == usable_width \div grid_layout.columns
        cell_height_pt == usable_height \div grid_layout.rows
        row == i \div grid_layout.columns
        col == i % grid_layout.columns
        x_pos_pt == MARGIN_PT + col * cell_width_pt
        y_pos_pt == page_height - MARGIN_PT - (row + 1) * cell_height_pt
        size == calculate_pdf_image_size(arranged[i + 1],
                                         cell_width_pt - PADDING_PT,
                                         cell_height_pt - PADDING_PT)
    IN  [index |-> i, width |-> size.width, height |-> size.height,
         x |-> x_pos_pt + (cell_width_pt - size.width) \div 2,
         y |-> y_pos_pt + (cell_height_pt - size.height) \div 2]

\* _create_pdf_sheet
create_pdf_sheet(arranged, grid_layout, orientation) ==
    [k \in 1..Len(arranged) |-> PdfPlacement(arranged, grid_layout, orientation, k - 1)]

SheetRequest(processed_images, grid_layout, orientation, output_format) ==
    [processed_images |-> processed_images, grid_layout |-> grid_layout,
     sheet_orientation |-> orientation, output_format |-> output_format]

\* what a sheet operation ends with: the ComposedSheet (status "ok": the
\* images used, the pixel placements, the PDF placements when the output is
\* a PDF, and the sheet size) or the exception it raises
SheetOutcome(status, error, images_used, arranged, pdf, dims) ==
    [status |-> status, error |-> error, images_used |-> images_used,
     arranged |-> arranged, pdf |-> pdf, sheet_dimensions |-> dims]

SheetError(status, error) ==
    SheetOutcome(status, error, <<>>, <<>>, <<>>, [width |-> 0, height |-> 0])

\* _validate_composition_request accepting any number of images
validate_composition_request_any_count(req) ==
    IF req.processed_images = <<>> THEN "empty" ELSE "none"

\* _validate_composition_request: the ValueError it raises, or "none"
validate_composition_request(req) ==
    LET max_images == req.grid_layout.rows * req.grid_layout.columns
    IN  IF req.processed_images = <<>> THEN "empty"
        ELSE IF Len(req.processed_images) > max_images THEN "too_many"
        ELSE IF req.grid_layout.rows < 1 \/ req.grid_layout.columns < 1
             THEN "grid_too_small"
        ELSE IF req.grid_layout.rows > 10 \/ req.grid_layout.columns > 10
             THEN "grid_too_large"
        ELSE "none"

\* _load_images: the first path that is missing or cannot be opened stops
\* the loading
RECURSIVE load_images(_)
load_images(image_paths) ==
    IF image_paths = <<>> THEN "none"
    ELSE IF Head(image_paths).state = "missing" THEN "not_found"
    ELSE IF Head(image_paths).state = "corrupt" THEN "load"
    ELSE load_images(Tail(image_paths))

\* process_sheet_composition_request
process_sheet_composition_request(req) ==
    LET invalid == validate_composition_request(req)
        unloaded == load_images(req.processed_images)
        dims == get_sheet_dimensions(req.sheet_orientation)
        cell == calculate_cell_dimensions(dims.width, dims.height, req.grid_layout)
        arranged == arrange_images_in_grid(req.processed_images, req.grid_layout,
                                           cell.width, cell.height)
    IN  IF invalid # "none" THEN SheetError("ValueError", invalid)
        ELSE IF unloaded = "not_found" THEN SheetError("FileNotFoundError", unloaded)
        ELSE IF unloaded = "load" THEN SheetError("ValueError", unloaded)
        ELSE IF arranged.raised THEN SheetError("ValueError", "resize")
        ELSE SheetOutcome("ok", "none", req.processed_images,
                          arranged.placements,
                          IF req.output_format = PDF
                          THEN create_pdf_sheet(arranged.placements, req.grid_layout,
                                                req.sheet_orientation)
                          ELSE <<>>,
                          dims)

\* compose_sheet without the truncation of the image list
compose_sheet_no_truncation(req) ==
    IF req.processed_images = <<>> THEN SheetError("ValueError", "empty")
    ELSE IF \E k \in 1..Len(req.processed_images) :
               req.processed_images[k].state = "missing"
         THEN SheetError("FileNotFoundError", "not_found")
         ELSE process_sheet_composition_request(req)

\* compose_sheet (main.py): FileNotFoundError and ValueError pass through
compose_sheet(req) ==
    LET max_images == req.grid_layout.rows * req.grid_layout.columns
        used == IF Len(req.processed_images) > max_images
                THEN SubSeq(req.processed_images, 1, max_images)
                ELSE req.processed_images
        truncated == [req EXCEPT !.processed_images = used]
    IN  IF req.processed_images = <<>> THEN SheetError("ValueError", "empty")
        ELSE IF \E k \in 1..Len(used) : used[k].state = "missing"
             THEN SheetError("FileNotFoundError", "not_found")
             ELSE process_sheet_composition_request(truncated)

(***************************************************************************)
(* Inputs of the sheet operations                                          *)
(***************************************************************************)
MaxSheetImages == 3
MaxGridSide == 2

\* GridLayout: rows and columns are at most 10
GridLimit == 10

GridSides == (1..MaxGridSide) \cup {GridLimit}

Grids == { Grid(r, c) : r \in GridSides, c \in GridSides }

Orientations == {PORTRAIT, LANDSCAPE}

OutputFormats == {IMAGE, PDF}

\* image files: a wide photo, a narrow strip, a strip so narrow that its
\* resized width is 0, a path that does not exist and a file PIL cannot open
OpenableImages ==
    { SheetImage("ok", 3000, 2000), SheetImage("ok", 2, 49),
      SheetImage("ok", 1, 10000) }

SheetImages ==
    OpenableImages \cup { SheetImage("missing", 0, 0), SheetImage("corrupt", 0, 0) }

SheetRequests ==
    { SheetRequest(images, grid, orientation, format) :
        images \in SeqsUpTo(SheetImages, MaxSheetImages), grid \in Grids,
        orientation \in Orientations, format \in OutputFormats }

\* _arrange_images_in_grid is handed images that are already loaded, and the
\* cell size of one of the two sheets
ArrangeRequests ==
    { SheetRequest(images, grid, orientation, IMAGE) :
        images \in SeqsUpTo(OpenableImages, MaxSheetImages), grid \in Grids,
        orientation \in Orientations }

NoSheetRequest == SheetRequest(<<>>, Grid(1, 1), PORTRAIT, IMAGE)

NoSheet == SheetError("none", "none")

SheetInit ==
    /\ spc = "idle"
    /\ sheet_op = "none"
    /\ sheet_request = NoSheetRequest
    /\ sheet = NoSheet

\* POST /api/v1/compose-sheet
ComposeSheet ==
    /\ spc = "idle"
    /\ \E req \in SheetRequests :
         /\ sheet_request' = req
         /\ sheet' = compose_sheet(req)
    /\ sheet_op' = "compose_sheet"
    /\ spc' = "done"

\* SheetComposer.process_sheet_composition_request called directly
ProcessSheetCompositionRequest ==
    /\ spc = "idle"
    /\ \E req \in SheetRequests :
         /\ sheet_request' = req
         /\ sheet' = process_sheet_composition_request(req)
    /\ sheet_op' = "process_sheet_composition_request"
    /\ spc' = "done"

\* SheetComposer._arrange_images_in_grid called directly
ArrangeImagesInGrid ==
    /\ spc = "idle"
    /\ \E req \in ArrangeRequests :
         LET dims == get_sheet_dimensions(req.sheet_orientation)
             cell == calculate_cell_dimensions(dims.width, dims.height, req.grid_layout)
             arranged == arrange_images_in_grid(req.processed_images, req.grid_layout,
                                                cell.width, cell.height)
         IN  /\ sheet_request' = req
             /\ sheet' = IF arranged.raised THEN SheetError("ValueError", "resize")
                         ELSE SheetOutcome("ok", "none", <<>>, arranged.placements,
                                           <<>>, dims)
    /\ sheet_op' = "arrange_images_in_grid"
    /\ spc' = "done"

(***************************************************************************)
(* Global NMS on its own: _remove_overlapping_detections applied to a list *)
(* of detections, and again to what it returned.  nms_history holds the    *)
(* list handed in and the list returned by each pass.                      *)
(***************************************************************************)
MaxNmsDets == 3
MaxPasses == 2

\* faces a, b, d that overlap each other by more than 0.25, faces c and e
\* apart from all, a face of confidence 0.0, two persons whose IoU is
\* exactly 0.25 and a person on the box of face a
NmsUniverse ==
    { Det(FACE, 90, Box(2, 2, 4, 4)), Det(FACE, 60, Box(3, 2, 4, 4)),
      Det(FACE, 60, Box(12, 2, 4, 4)), Det(FACE, 50, Box(4, 2, 4, 4)),
      Det(FACE, 40, Box(7, 14, 4, 4)), Det(FACE, 0, Box(20, 2, 4, 4)),
      Det(PERSON, 80, Box(0, 0, 4, 5)), Det(PERSON, 70, Box(0, 3, 4, 5)),
      Det(PERSON, 60, Box(2, 2, 4, 4)) }

NmsInputs == SeqsUpTo(NmsUniverse, MaxNmsDets)

NmsIdle == nms_history = << <<>> >>

NmsInit == nms_history \in { <<detections>> : detections \in NmsInputs }

\* one more call of _remove_overlapping_detections, on the latest list
RemoveOverlappingDetections ==
    /\ Len(nms_history) <= MaxPasses
    /\ nms_history' =
          Append(nms_history,
                 remove_overlapping_detections(nms_history[Len(nms_history)]))

(***************************************************************************)
(* Batch processing: process_batch of main.py, with the detection and the  *)
(* crop request it runs for every image.  An image file is a record:       *)
(* whether the path exists, what cv2.imread makes of it (image), whether   *)
(* ImageProcessor.load_image accepts it (pil) and its pixel size there,    *)
(* what the detectors answer on it, and whether the crop can be saved.     *)
(***************************************************************************)
BatchFile(exists, image, pil, size, faces, persons, writable) ==
    [exists |-> exists, image |-> image, pil |-> pil, size |-> size,
     faces |-> faces, persons |-> persons, writable |-> writable]

\* settings.max_batch_size
max_batch_size == 50

\* detection_processor.process_detection_request(detection_request): main.py
\* builds the processor without enforce_consistency; HOG finds nothing
DetectImage(breq, file) ==
    LET dreq == [image |-> file.image, detection_types |-> breq.detection_types,
                 confidence_threshold |-> breq.confidence_threshold]
    IN  process_detection_request(FALSE, dreq, file.faces, file.persons,
            [b \in HogCalls(dreq, file.faces, file.persons) |-> Hog("none", 0, 0, 0, 0)])

\* the CropResult of process_crop_request once the coordinates are computed
\* (coords) for a file that loads: save_image follows
CropResult(file, coords) ==
    IF coords.raised \/ ~file.writable
    THEN [exception |-> "ValueError", crop_coordinates |-> Box(0, 0, 0, 0)]
    ELSE [exception |-> "none",
          crop_coordinates |-> Box(coords.x, coords.y, coords.width, coords.height)]

\* ImageProcessor.process_crop_request: every exception of load_image,
\* calculate_crop_coordinates and save_image comes out as a ValueError
process_crop_request(file, target_aspect_ratio, detection_results, crop_strategy) ==
    IF ~file.exists \/ file.pil # "ok"
    THEN [exception |-> "ValueError", crop_coordinates |-> Box(0, 0, 0, 0)]
    ELSE CropResult(file, calculate_crop_coordinates(
                              Args(file.size, target_aspect_ratio, TRUE,
                                   detection_results, crop_strategy)))

\* how the loop body ends for the image at index i: the exception it ends
\* with, whether the detection stage failed, and the crop of the
\* ProcessedImage
Step(i, detection_failed, processed_image) ==
    [index |-> i, exception |-> processed_image.exception,
     detection_failed |-> detection_failed,
     crop_coordinates |-> processed_image.crop_coordinates]

\* the loop body after detection: the crop request carries
\* detection_response.detections
CropDetected(breq, i, detection_response) ==
    Step(i, detection_response.failed,
         process_crop_request(breq.images[i], breq.target_aspect_ratio,
                              detection_response.detections, breq.crop_strategy))

\* the body of the loop of process_batch for the image at index i (from 1)
ProcessImage(breq, i) ==
    IF ~breq.images[i].exists
    THEN Step(i, FALSE, [exception |-> "FileNotFoundError",
                         crop_coordinates |-> Box(0, 0, 0, 0)])
    ELSE CropDetected(breq, i, DetectImage(breq, breq.images[i]))

\* the except clauses of the loop
error_code(exception) ==
    IF exception = "FileNotFoundError" THEN "IMAGE_NOT_FOUND"
    ELSE IF exception = "ValueError" THEN "INVALID_INPUT"
    ELSE IF exception = "MemoryError" THEN "INSUFFICIENT_MEMORY"
    ELSE "PROCESSING_FAILED"

BatchLists(steps, processed_images, failed_images) ==
    [steps |-> steps, processed_images |-> processed_images,
     failed_images |-> failed_images]

\* processed_images.append(processed_image), or the failed_images.append of
\* the except clause the step ends in; a path is the index of the image in
\* the request
AppendStep(lists, step) ==
    IF step.exception = "none"
    THEN BatchLists(Append(lists.steps, step),
                    Append(lists.processed_images,
                           [original_path |-> step.index,
                            crop_coordinates |-> step.crop_coordinates]),
                    lists.failed_images)
    ELSE BatchLists(Append(lists.steps, step), lists.processed_images,
                    Append(lists.failed_images,
                           [path |-> step.index,
                            error_code |-> error_code(step.exception)]))

\* the loop of process_batch leaving after the first image that fails
RECURSIVE BatchLoop_stop_at_failure(_, _, _)
BatchLoop_stop_at_failure(breq, i, lists) ==
    IF i > Len(breq.images) \/ lists.failed_images # <<>> THEN lists
    ELSE BatchLoop_stop_at_failure(breq, i + 1,
                                   AppendStep(lists, ProcessImage(breq, i)))

\* the loop of process_batch from image i on
RECURSIVE BatchLoop(_, _, _)
BatchLoop(breq, i, lists) ==
    IF i > Len(breq.images) THEN lists
    ELSE BatchLoop(breq, i + 1, AppendStep(lists, ProcessImage(breq, i)))

\* what process_batch ends with: the BatchProcessResult (status "ok"), the
\* ValueError of the request validation, or the HTTPException with its
\* status code and the failures of its detail; lists are the locals of the
\* loop
BatchOutcome(status, status_code, lists, result, failures) ==
    [status |-> status, status_code |-> status_code, lists |-> lists,
     result |-> result, failures |-> failures]

NoLists == BatchLists(<<>>, <<>>, <<>>)

NoResult == [processed_images |-> <<>>, failed_images |-> <<>>]

\* the end of process_batch raising as soon as one image failed
batch_result_any_failure_fatal(lists) ==
    IF lists.failed_images # <<>>
    THEN BatchOutcome("HTTPException", 422, lists, NoResult, lists.failed_images)
    ELSE BatchOutcome("ok", 200, lists,
                      [processed_images |-> lists.processed_images,
                       failed_images |-> lists.failed_images], <<>>)

\* the end of process_batch, after the loop: the BatchProcessResult, or the
\* HTTPException when every image failed
batch_result(lists) ==
    IF lists.processed_images = <<>> /\ lists.failed_images # <<>>
    THEN BatchOutcome("HTTPException", 422, lists, NoResult, lists.failed_images)
    ELSE BatchOutcome("ok", 200, lists,
                      [processed_images |-> lists.processed_images,
                       failed_images |-> lists.failed_images], <<>>)

\* process_batch
process_batch(breq) ==
    IF \/ breq.images = <<>>
       \/ Len(breq.images) > max_batch_size
       \/ breq.target_aspect_ratio[1] <= 0 \/ breq.target_aspect_ratio[2] <= 0
       \/ breq.detection_types = {}
    THEN BatchOutcome("ValueError", 0, NoLists, NoResult, <<>>)
    ELSE batch_result(BatchLoop(breq, 1, NoLists))

(***************************************************************************)
(* Inputs of process_batch                                                 *)
(***************************************************************************)
MaxBatch == 3

\* a path that does not exist; a photo with a face and a person; a file
\* that neither cv2 nor PIL can read; a file cv2.imread returns None for
\* and PIL opens; a 1x1 image; a photo whose crop cannot be written
BatchFiles ==
    { BatchFile(FALSE, Image("missing", 0, 0), "fail", <<1, 1>>, <<>>, <<>>, TRUE),
      BatchFile(TRUE, TestImage, "ok", <<20, 30>>,
                <<Det(FACE, 90, Box(2, 2, 4, 4))>>,
                <<Det(PERSON, 80, Box(0, 0, 10, 28))>>, TRUE),
      BatchFile(TRUE, Image("undecodable", 0, 0), "fail", <<1, 1>>, <<>>, <<>>, TRUE),
      BatchFile(TRUE, Image("undecodable", 0, 0), "ok", <<20, 30>>, <<>>, <<>>, TRUE),
      BatchFile(TRUE, Image("decoded", 1, 1), "ok", <<1, 1>>, <<>>, <<>>, TRUE),
      BatchFile(TRUE, TestImage, "ok", <<20, 30>>, <<>>, <<>>, FALSE) }

BatchRequests ==
    [images : SeqsUpTo(BatchFiles, MaxBatch),
     target_aspect_ratio : {<<1, 1>>, <<1, 2>>},
     crop_strategy : {CENTER, CENTER_FACES},
     detection_types : {{}, {FACE, PERSON}},
     confidence_threshold : {50}]

NoBatchRequest ==
    [images |-> <<>>, target_aspect_ratio |-> <<1, 1>>, crop_strategy |-> CENTER,
     detection_types |-> {}, confidence_threshold |-> 50]

NoBatch == BatchOutcome("none", 0, NoLists, NoResult, <<>>)

BatchInit ==
    /\ bpc = "idle"
    /\ batch_request = NoBatchRequest
    /\ batch = NoBatch

\* POST /api/v1/process-batch
ProcessBatch ==
    /\ bpc = "idle"
    /\ \E breq \in BatchRequests :
         /\ batch_request' = breq
         /\ batch' = process_batch(breq)
    /\ bpc' = "done"

(***************************************************************************)
(* The candidate stage of the detectors: _merge_overlapping_faces of       *)
(* detection/face_detector.py, _merge_overlapping_persons and              *)
(* _detect_with_hog of detection/person_detector.py.  A candidate is the   *)
(* rectangle (x, y, w, h) of a cascade or of HOG, with the HOG weight in    *)
(* hundredths for a person candidate (0 for a face candidate).             *)
(*                                                                         *)
(* np.argsort(keys)[::-1] uses numpy's default sort, which is not stable:  *)
(* the order of candidates with equal keys is not fixed, and `indices` is  *)
(* any permutation of the positions with the keys in descending order.     *)
(***************************************************************************)
Cand(x, y, w, h, weight) ==
    [x |-> x, y |-> y, width |-> w, height |-> h, weight |-> weight]

\* the orders of the positions in `remaining` with the keys descending
RECURSIVE DescendingOrders(_, _)
DescendingOrders(keys, remaining) ==
    IF remaining = {} THEN {<<>>}
    ELSE UNION { { <<i>> \o rest : rest \in DescendingOrders(keys, remaining \ {i}) } :
                 i \in { j \in remaining : \A k \in remaining : keys[j] >= keys[k] } }

\* what np.argsort(keys)[::-1] may return
ArgsortDescending(keys) == DescendingOrders(keys, 1..Len(keys))

\* areas = array[:, 2] * array[:, 3]
Areas(candidates) ==
    [i \in 1..Len(candidates) |-> candidates[i].width * candidates[i].height]

\* detections_array[:, 4]
Weights(candidates) == [i \in 1..Len(candidates) |-> candidates[i].weight]

\* the while loop of the merge with iou = intersection / union, without the
\* 1e-6: a candidate at an IoU of exactly 0.2 is removed
RECURSIVE MergeLoop_without_epsilon(_, _, _)
MergeLoop_without_epsilon(candidates, indices, keep) ==
    IF indices = <<>> THEN keep
    ELSE MergeLoop_without_epsilon(candidates,
             SelectSeq(Tail(indices),
                       LAMBDA i : 5 * Intersection(candidates[Head(indices)], candidates[i])
                                    < Union(candidates[Head(indices)], candidates[i])),
             Append(keep, Head(indices)))

\* the while loop of the merge: keep the first of indices, go on with the
\* others whose iou = intersection / (union + 1e-6) is below 0.2.  With
\* integer intersection and union this is 5 * intersection <= union: at an
\* IoU of exactly 0.2 the 1e-6 puts the quotient below the threshold.
RECURSIVE MergeLoop(_, _, _)
MergeLoop(candidates, indices, keep) ==
    IF indices = <<>> THEN keep
    ELSE MergeLoop(candidates,
             SelectSeq(Tail(indices),
                       LAMBDA i : ~IoUAbove(candidates[Head(indices)], candidates[i], 2, 10)),
             Append(keep, Head(indices)))

\* the positions kept by a merge and the list it returns,
\* [candidates[i] for i in keep]
Merged(candidates, keep) ==
    [keep |-> keep, kept |-> [i \in 1..Len(keep) |-> candidates[keep[i]]]]

\* the keys _merge_overlapping_faces sorts by: "Sort by area (larger faces first)"
FaceSortKeys(faces) == Areas(faces)

\* _merge_overlapping_faces, indices being what argsort returned
merge_overlapping_faces(faces, indices) ==
    IF faces = <<>> THEN Merged(faces, <<>>)
    ELSE Merged(faces, MergeLoop(faces, indices, <<>>))

\* _merge_overlapping_persons sorting by area as the face merge does
PersonSortKeys_by_area(detections) == Areas(detections)

\* the keys _merge_overlapping_persons sorts by: "Sort by weight (detection
\* strength)"
PersonSortKeys(detections) == Weights(detections)

\* _merge_overlapping_persons, indices being what argsort returned
merge_overlapping_persons(detections, indices) ==
    IF detections = <<>> THEN Merged(detections, <<>>)
    ELSE Merged(detections, MergeLoop(detections, indices, <<>>))

(***************************************************************************)
(* _detect_with_hog.  The confidence of a candidate is a sum of four       *)
(* clamped quotients; the model computes it exactly, in percent and scaled *)
(* by HogScale = 6 * image_area * w * max(w, h), which makes every term an  *)
(* integer.  Weights are in hundredths.                                    *)
(***************************************************************************)
\* settings.person_detection_confidence, in percent
person_detection_confidence == 35

\* min(hi, max(lo, v))
Clamped(v, lo, hi) == Min2(hi, Max2(lo, v))

HogScale(c, image) ==
    6 * (image.width * image.height) * c.width * Max2(c.width, c.height)

\* confidence = base_confidence * 0.5 + size_confidence * 0.25
\*              + aspect_confidence * 0.15 + edge_confidence * 0.1,
\* in percent, times HogScale
HogConfidence(c, image) ==
    LET A == image.width * image.height
        m == Max2(c.width, c.height)
        unit == A * c.width * m
        person_area == c.width * c.height
        edge_distance == MinOf({c.x, c.y, image.width - (c.x + c.width),
                                image.height - (c.y + c.height)})
        \* 0.5 * min(0.9, max(0.1, (weight + 1.5) / 3.0))
        base == Clamped(c.weight + 150, 30, 270) * unit
        \* 0.25 * min(0.9, max(0.2, relative_size * 35))
        size == IF 350 * person_area >= 9 * A THEN 135 * unit
                ELSE IF 175 * person_area <= A THEN 30 * unit
                ELSE 5250 * person_area * c.width * m
        \* 0.15 * max(0.3, min(0.9, aspect_ratio / 2.5))
        aspect == IF 4 * c.height >= 9 * c.width THEN 81 * unit
                  ELSE IF 4 * c.height <= 3 * c.width THEN 27 * unit
                  ELSE 36 * c.height * A * m
        \* 0.1 * min(0.9, max(0.4, edge_distance / max(w, h) + 0.3))
        edge == IF 5 * edge_distance >= 3 * m THEN 54 * unit
                ELSE IF 10 * edge_distance <= m THEN 24 * unit
                ELSE 60 * edge_distance * A * c.width + 18 * unit
    IN  base + size + aspect + edge

\* the body of the loop over unique_detections for one candidate: the
\* filter that skips it, "emit" when its DetectionResult is appended,
\* "invalid_box" when BoundingBox raises its ValidationError
HogDecision(c, image) ==
    LET A == image.width * image.height
        person_area == c.width * c.height
        min_threshold == Max2(person_detection_confidence, 35)
    IN  IF 10000 * person_area < 8 * A THEN "too_small"
        ELSE IF 2 * person_area > A THEN "too_large"
        ELSE IF 10 * c.height < 8 * c.width THEN "too_wide"
        ELSE IF c.height > 5 * c.width THEN "too_tall"
        ELSE IF HogConfidence(c, image) < min_threshold * HogScale(c, image)
        THEN "low_confidence"
        ELSE IF ~ValidBox(Box(c.x, c.y, c.width, c.height)) THEN "invalid_box"
        ELSE "emit"

\* the DetectionResult of a candidate, its confidence in percent
HogDetection(c, image) ==
    Det(PERSON, HogConfidence(c, image) \div HogScale(c, image),
        Box(c.x, c.y, c.width, c.height))

\* what _detect_with_hog ends with: the list it returns and whether the
\* outer except clause returned it
HogResult(failed, results) == [failed |-> failed, results |-> results]

\* the loop over unique_detections from position i on; the ValidationError of
\* BoundingBox is not caught in the loop and ends _detect_with_hog in its
\* outer except clause, which returns []
RECURSIVE HogLoop(_, _, _, _)
HogLoop(unique_detections, image, i, results) ==
    IF i > Len(unique_detections) THEN HogResult(FALSE, results)
    ELSE IF HogDecision(unique_detections[i], image) = "invalid_box"
    THEN HogResult(TRUE, <<>>)
    ELSE HogLoop(unique_detections, image, i + 1,
             IF HogDecision(unique_detections[i], image) = "emit"
             THEN Append(results, HogDetection(unique_detections[i], image))
             ELSE results)

\* what hog.detectMultiScale does under one detection_config: it raises, or
\* it returns rectangles with their weights
HogPass(raised, rects) == [raised |-> raised, rects |-> rects]

\* all_detections after the loop over detection_configs: a config that
\* raises is skipped
RECURSIVE AllDetections(_)
AllDetections(passes) ==
    IF passes = <<>> THEN <<>>
    ELSE (IF Head(passes).raised THEN <<>> ELSE Head(passes).rects)
             \o AllDetections(Tail(passes))

\* _detect_with_hog; indices is what argsort returned in the merge
detect_with_hog(image, passes, indices) ==
    IF AllDetections(passes) = <<>> THEN HogResult(FALSE, <<>>)
    ELSE HogLoop(merge_overlapping_persons(AllDetections(passes), indices).kept,
                 image, 1, <<>>)

(***************************************************************************)
(* One call of the candidate stage per behaviour.                          *)
(***************************************************************************)
MaxCandidates == 3
MaxPerPass == 1

\* detection_configs of _detect_with_hog has three entries
NumDetectionConfigs == 3

HogImage == Image("decoded", 20, 30)

FaceCandidates ==
    { Cand(0, 0, 4, 4, 0), Cand(3, 3, 4, 4, 0), Cand(0, 0, 3, 2, 0),
      Cand(2, 0, 3, 2, 0), Cand(10, 10, 2, 2, 0) }

PersonCandidates ==
    { Cand(2, 2, 8, 16, 100), Cand(3, 3, 8, 16, 50), Cand(1, 1, 10, 20, 20),
      Cand(-1, 14, 6, 12, 100), Cand(15, 20, 1, 3, -150), Cand(0, 24, 10, 5, 50) }

\* what HOG returns in one pass: a candidate that is emitted, one that
\* overlaps it, one left of the image and one of low confidence
HogCandidates ==
    { Cand(2, 2, 8, 16, 100), Cand(3, 3, 8, 16, 50),
      Cand(-1, 14, 6, 12, 100), Cand(15, 20, 1, 3, -150) }

HogPasses ==
    {HogPass(TRUE, <<>>)}
        \cup { HogPass(FALSE, rects) : rects \in SeqsUpTo(HogCandidates, MaxPerPass) }

CandRequest(image, candidates, passes, indices) ==
    [image |-> image, candidates |-> candidates, passes |-> passes,
     indices |-> indices]

CandResult(merged, hog) ==
    [keep |-> merged.keep, kept |-> merged.kept,
     failed |-> hog.failed, results |-> hog.results]

NoCandRequest == CandRequest(Image("missing", 0, 0), <<>>, <<>>, <<>>)

NoCandResult == CandResult(Merged(<<>>, <<>>), HogResult(FALSE, <<>>))

CandIdle ==
    /\ kpc = "idle"
    /\ cand_op = "none"
    /\ cand_request = NoCandRequest
    /\ cand_result = NoCandResult

\* FaceDetector._merge_overlapping_faces(faces)
MergeOverlappingFaces ==
    /\ kpc = "idle"
    /\ \E faces \in SeqsUpTo(FaceCandidates, MaxCandidates) :
         \E indices \in ArgsortDescending(FaceSortKeys(faces)) :
           /\ cand_request' = CandRequest(NoCandRequest.image, faces, <<>>, indices)
           /\ cand_result' = CandResult(merge_overlapping_faces(faces, indices),
                                        HogResult(FALSE, <<>>))
    /\ cand_op' = "merge_overlapping_faces"
    /\ kpc' = "done"

\* PersonDetector._merge_overlapping_persons(detections)
MergeOverlappingPersons ==
    /\ kpc = "idle"
    /\ \E detections \in SeqsUpTo(PersonCandidates, MaxCandidates) :
         \E indices \in ArgsortDescending(PersonSortKeys(detections)) :
           /\ cand_request' = CandRequest(NoCandRequest.image, detections, <<>>, indices)
           /\ cand_result' = CandResult(merge_overlapping_persons(detections, indices),
                                        HogResult(FALSE, <<>>))
    /\ cand_op' = "merge_overlapping_persons"
    /\ kpc' = "done"

\* PersonDetector._detect_with_hog(image, gray)
DetectWithHog ==
    /\ kpc = "idle"
    /\ \E passes \in [1..NumDetectionConfigs -> HogPasses] :
         \E indices \in ArgsortDescending(PersonSortKeys(AllDetections(passes))) :
           /\ cand_request' = CandRequest(HogImage, AllDetections(passes), passes, indices)
           /\ cand_result' = CandResult(
                  merge_overlapping_persons(AllDetections(passes), indices),
                  detect_with_hog(HogImage, passes, indices))
    /\ cand_op' = "detect_with_hog"
    /\ kpc' = "done"

(***************************************************************************)
(* Health monitoring: utils/health_monitor.py.  Every request ends in      *)
(* CorrelationIdMiddleware.dispatch with one call of record_request on the *)
(* HealthMonitor singleton.  record_request takes no lock.  Requests       *)
(* served by one event loop run it without interruption (it has no await); *)
(* requests running on threads of their own, as in                         *)
(* test_batch_process_concurrent_safety, can be switched between the       *)
(* bytecodes of "self.x += 1", which loads the attribute, adds, and stores *)
(* it back.                                                                *)
(***************************************************************************)
MaxCallers == 2

Callers == 1..MaxCallers

\* what str(e) may be for a failed request
ErrorMessages == {"", "timeout"}

\* HealthMonitor.__init__
NewHealthMonitor ==
    [request_count |-> 0, successful_requests |-> 0, error_count |-> 0,
     last_error |-> "None"]

\* HealthMonitor.record_request run without interruption
record_request(monitor, success, error_message) ==
    IF success
    THEN [monitor EXCEPT !.request_count = @ + 1, !.successful_requests = @ + 1]
    ELSE [monitor EXCEPT !.request_count = @ + 1, !.error_count = @ + 1,
                         !.last_error = IF error_message # "" THEN error_message ELSE @]

\* a call of record_request: where it stands, its arguments and the value
\* it loaded for the increment under way
Call(pc, success, error_message, loaded) ==
    [pc |-> pc, success |-> success, error_message |-> error_message,
     loaded |-> loaded]

NoCall == Call("idle", TRUE, "", 0)

HealthIdle ==
    /\ threaded = FALSE
    /\ health = NewHealthMonitor
    /\ callers = [c \in Callers |-> NoCall]

HealthInit ==
    /\ threaded \in BOOLEAN
    /\ health = NewHealthMonitor
    /\ callers = [c \in Callers |-> NoCall]

\* dispatch of a request served by the event loop: record_request(success=True)
\* after the response, record_request(success=False, error_message=str(e))
\* in the except clause
RecordRequest(c) ==
    /\ ~threaded
    /\ callers[c].pc = "idle"
    /\ \E success \in BOOLEAN :
         \E error_message \in (IF success THEN {""} ELSE ErrorMessages) :
           /\ health' = record_request(health, success, error_message)
           /\ callers' = [callers EXCEPT ![c] = Call("done", success, error_message, 0)]
    /\ UNCHANGED threaded

\* dispatch of a request on a thread of its own enters record_request
EnterRecordRequest(c) ==
    /\ threaded
    /\ callers[c].pc = "idle"
    /\ \E success \in BOOLEAN :
         \E error_message \in (IF success THEN {""} ELSE ErrorMessages) :
           callers' = [callers EXCEPT
                          ![c] = Call("load_request_count", success, error_message, 0)]
    /\ UNCHANGED <<threaded, health>>

\* self.request_count += 1: the load
LoadRequestCount(c) ==
    /\ callers[c].pc = "load_request_count"
    /\ callers' = [callers EXCEPT ![c].pc = "store_request_count",
                                  ![c].loaded = health.request_count]
    /\ UNCHANGED <<threaded, health>>

\* self.request_count += 1: the store, then the test of success
StoreRequestCount(c) ==
    /\ callers[c].pc = "store_request_count"
    /\ health' = [health EXCEPT !.request_count = callers[c].loaded + 1]
    /\ callers' = [callers EXCEPT
                      ![c].pc = IF callers[c].success THEN "load_successful_requests"
                                ELSE "load_error_count"]
    /\ UNCHANGED threaded

\* self.successful_requests += 1: the load
LoadSuccessfulRequests(c) ==
    /\ callers[c].pc = "load_successful_requests"
    /\ callers' = [callers EXCEPT ![c].pc = "store_successful_requests",
                                  ![c].loaded = health.successful_requests]
    /\ UNCHANGED <<threaded, health>>

\* self.successful_requests += 1: the store; record_request returns
StoreSuccessfulRequests(c) ==
    /\ callers[c].pc = "store_successful_requests"
    /\ health' = [health EXCEPT !.successful_requests = callers[c].loaded + 1]
    /\ callers' = [callers EXCEPT ![c].pc = "done"]
    /\ UNCHANGED threaded

\* self.error_count += 1: the load
LoadErrorCount(c) ==
    /\ callers[c].pc = "load_error_count"
    /\ callers' = [callers EXCEPT ![c].pc = "store_error_count",
                                  ![c].loaded = health.error_count]
    /\ UNCHANGED <<threaded, health>>

\* self.error_count += 1: the store, then last_error; record_request returns
StoreErrorCount(c) ==
    /\ callers[c].pc = "store_error_count"
    /\ health' = [health EXCEPT
                     !.error_count = callers[c].loaded + 1,
                     !.last_error = IF callers[c].error_message # ""
                                    THEN callers[c].error_message ELSE @]
    /\ callers' = [callers EXCEPT ![c].pc = "done"]
    /\ UNCHANGED threaded

DetIdle ==
    /\ enforce_consistency = FALSE
    /\ dpc = "idle"
    /\ request = NoRequest
    /\ run = NoRun
    /\ response = [detections |-> <<>>, image_dimensions |-> [width |-> 0, height |-> 0]]

Init == DetInit /\ CropInit /\ SheetInit /\ NmsIdle /\ BatchInit /\ HealthIdle /\ CandIdle

Next == ProcessDetectionRequest /\ UNCHANGED <<cropVars, sheetVars, nmsVars, batchVars, healthVars, candVars>>

Spec == Init /\ [][Next]_vars

InitCrop == DetIdle /\ CropInit /\ SheetInit /\ NmsIdle /\ BatchInit /\ HealthIdle /\ CandIdle

NextCrop == CalculateCropCoordinates /\ UNCHANGED <<detVars, sheetVars, nmsVars, batchVars, healthVars, candVars>>

SpecCrop == InitCrop /\ [][NextCrop]_vars

InitSheet == DetIdle /\ CropInit /\ SheetInit /\ NmsIdle /\ BatchInit /\ HealthIdle /\ CandIdle

NextSheet ==
    /\ \/ ComposeSheet
       \/ ProcessSheetCompositionRequest
       \/ ArrangeImagesInGrid
    /\ UNCHANGED <<detVars, cropVars, nmsVars, batchVars, healthVars, candVars>>

SpecSheet == InitSheet /\ [][NextSheet]_vars

InitNMS == DetIdle /\ CropInit /\ SheetInit /\ NmsInit /\ BatchInit /\ HealthIdle /\ CandIdle

NextNMS == RemoveOverlappingDetections /\ UNCHANGED <<detVars, cropVars, sheetVars, batchVars, healthVars, candVars>>

SpecNMS == InitNMS /\ [][NextNMS]_vars

InitBatch == DetIdle /\ CropInit /\ SheetInit /\ NmsIdle /\ BatchInit /\ HealthIdle /\ CandIdle

NextBatch == ProcessBatch /\ UNCHANGED <<detVars, cropVars, sheetVars, nmsVars, healthVars, candVars>>

SpecBatch == InitBatch /\ [][NextBatch]_vars

InitHealth == DetIdle /\ CropInit /\ SheetInit /\ NmsIdle /\ BatchInit /\ HealthInit /\ CandIdle

NextHealth ==
    /\ \E c \in Callers :
         \/ RecordRequest(c)
         \/ EnterRecordRequest(c)
         \/ LoadRequestCount(c)
         \/ StoreRequestCount(c)
         \/ LoadSuccessfulRequests(c)
         \/ StoreSuccessfulRequests(c)
         \/ LoadErrorCount(c)
         \/ StoreErrorCount(c)
    /\ UNCHANGED <<detVars, cropVars, sheetVars, nmsVars, batchVars, candVars>>

SpecHealth == InitHealth /\ [][NextHealth]_vars

InitCand ==
    /\ DetIdle /\ CropInit /\ SheetInit /\ NmsIdle /\ BatchInit /\ HealthIdle
    /\ CandIdle

NextCand ==
    /\ \/ MergeOverlappingFaces
       \/ MergeOverlappingPersons
       \/ DetectWithHog
    /\ UNCHANGED <<detVars, cropVars, sheetVars, nmsVars, batchVars, healthVars>>

SpecCand == InitCand /\ [][NextCand]_vars

(***************************************************************************)
(* Properties of the detection pipeline (specification Spec)               *)
(***************************************************************************)
Count(dets, t) == Len(OfType(dets, t))

Responded == dpc = "done"

\* C1: with enforce_consistency on, every response of
\* process_detection_request, the error response included, has at most as
\* many faces as persons.
C1_StrictFacesAtMostPersons ==
    (Responded /\ enforce_consistency)
        => Count(response.detections, FACE) <= Count(response.detections, PERSON)

\* the strict step had more post-NMS faces than persons, with a person left
C1_Witness ==
    /\ Responded /\ enforce_consistency /\ run.checked
    /\ Len(run.final_faces) > Len(run.final_people)
    /\ Len(run.final_people) > 0
    /\ Count(response.detections, FACE) = Len(run.final_people)

\* C2: the strict step returns the post-NMS persons unchanged and exactly
\* the min(|F|, |P|) faces of highest confidence: every face when
\* |F| <= |P|, none when |P| = 0, and never drops a face of strictly higher
\* confidence than one it keeps.
C2_StrictStepKeepsBestFaces ==
    (Responded /\ run.checked) =>
        LET F == run.final_faces
            P == run.final_people
            kept == OfType(response.detections, FACE)
        IN  /\ OfType(response.detections, PERSON) = P
            /\ Len(kept) = Min2(Len(F), Len(P))
            /\ Cardinality(Range(kept)) = Len(kept)
            /\ Range(kept) \subseteq Range(F)
            /\ (Len(F) <= Len(P) => kept = F)
            /\ \A d \in Range(F) \ Range(kept) : \A k \in Range(kept) :
                   d.confidence <= k.confidence

\* the step had to choose: a face was dropped although a person was there,
\* and a dropped face ties with a kept one
C2_Witness ==
    /\ Responded /\ run.checked
    /\ Len(run.final_people) > 0
    /\ Len(run.final_faces) > Len(run.final_people)
    /\ \E d \in Range(run.final_faces) \ Range(response.detections) :
          \E k \in Range(OfType(response.detections, FACE)) :
             d.confidence = k.confidence

\* C3 (as claimed): no detection of a response is below the confidence
\* threshold of its request.
C3_AllAtOrAboveThreshold ==
    Responded =>
        \A i \in 1..Len(response.detections) :
            response.detections[i].confidence >= request.confidence_threshold

\* the request as process_detection_request received it
TheRequest ==
    [image |-> request.image, detection_types |-> request.detection_types,
     confidence_threshold |-> request.confidence_threshold]

\* the positions, in the filtered face list, of the faces the secondary
\* search handed to HOG with the given outcome
SearchedWith(kind) ==
    { j \in 1..Len(run.face_detections) :
        /\ run.face_detections[j].bounding_box \in DOMAIN request.hogs
        /\ request.hogs[run.face_detections[j].bounding_box].kind = kind }

\* what HOG answered, an exception counted as no rectangle
HogsWithoutRaise ==
    [b \in DOMAIN request.hogs |->
        IF request.hogs[b].kind = "raise" THEN Hog("none", 0, 0, 0, 0)
        ELSE request.hogs[b]]

\* C21: when HOG raises in the secondary search for a face, the request
\* still ends with its normal response (real image dimensions), no person is
\* added for that face, the faces and persons gathered so far are kept, and
\* the whole run is the one of the same request with "no rectangle" in place
\* of each exception, so the other faces are searched as usual.
C21_SecondaryFailureSwallowed ==
    (Responded /\ SearchedWith("raise") # {}) =>
        /\ ~run.failed
        /\ response.image_dimensions =
               [width |-> request.image.width, height |-> request.image.height]
        /\ Len(run.enhanced) <= Cardinality(SearchedWith("rect"))
        /\ run.all_detections =
               run.face_detections \o run.person_detections \o run.enhanced
        /\ run = process_detection_request(enforce_consistency, TheRequest,
                     request.detect_faces, request.detect_persons, HogsWithoutRaise)

\* HOG raised for a face and a body was added for a face that comes after it
C21_Witness ==
    /\ Responded
    /\ run.enhanced # <<>>
    /\ \E j \in SearchedWith("raise") : \A k \in SearchedWith("rect") : j < k

\* cv2.imread decoded the file of the request
Decoded == request.image.state = "decoded"

\* C22: process_detection_request always ends with a response: for a
\* missing or undecodable image the one of its except branch, no detections
\* and image_dimensions 0x0; for a decoded image the real, positive
\* dimensions, with an empty detection list when the detectors found nothing
\* that passes the threshold.  So image_dimensions tells the error response
\* from an empty result.
C22_ErrorResponseDistinct ==
    Responded =>
        /\ ~Decoded =>
              /\ response.detections = <<>>
              /\ response.image_dimensions = [width |-> 0, height |-> 0]
        /\ Decoded =>
              /\ response.image_dimensions =
                     [width |-> request.image.width, height |-> request.image.height]
              /\ response.image_dimensions.width > 0
              /\ response.image_dimensions.height > 0
              /\ (run.face_detections = <<>> /\ run.person_detections = <<>>)
                     => response.detections = <<>>
        /\ run.failed <=> ~Decoded

\* both detectors ran on a decoded image, every candidate was below the
\* threshold, and the response is empty with the size of the image
C22_Witness ==
    /\ Responded /\ Decoded
    /\ request.detection_types = {FACE, PERSON}
    /\ request.detect_faces # <<>>
    /\ response.detections = <<>>
    /\ response.image_dimensions = [width |-> 20, height |-> 30]

\* the request reached the reconciliation of faces and persons: the image
\* loaded and person detection was asked for
Reconciled == Responded /\ ~run.failed /\ PERSON \in request.detection_types

\* the center of the face lies in the person box, the box reaching down to
\* 1.2 times its height
CenterInside(face, person) ==
    LET cx == face.bounding_box.x + face.bounding_box.width \div 2
        cy == face.bounding_box.y + face.bounding_box.height \div 2
        pb == person.bounding_box
    IN  /\ pb.x <= cx /\ cx <= pb.x + pb.width
        /\ pb.y <= cy /\ 5 * cy <= 5 * pb.y + 6 * pb.height

\* the faces, in order, whose center lies in no person box of the
\* threshold-filtered person list
Uncovered ==
    SelectSeq(run.face_detections,
              LAMBDA f : \A i \in 1..Len(run.person_detections) :
                            ~CenterInside(f, run.person_detections[i]))

\* C24: with at most as many faces as persons after the threshold filter
\* the reconciliation does nothing: no face is searched and the person list
\* is the filtered one; with more faces, _search_person_around_face is
\* called for exactly the faces whose center lies in no existing person box
\* (height taken 1.2 times), in their order, and for no other face.
C24_SearchExactlyUncovered ==
    Reconciled =>
        IF Len(run.face_detections) <= Len(run.person_detections)
        THEN /\ run.searched = <<>>
             /\ run.enhanced = <<>>
             /\ OfType(run.all_detections, PERSON) = run.person_detections
        ELSE run.searched = Uncovered

\* more faces than persons; one face is searched, another is not because its
\* center lies within 1.2 times the height of a person box but below the box
C24_Witness ==
    /\ Reconciled
    /\ Len(run.face_detections) > Len(run.person_detections)
    /\ run.searched # <<>>
    /\ \E i \in 1..Len(run.face_detections) : \E j \in 1..Len(run.person_detections) :
          LET f == run.face_detections[i].bounding_box
              p == run.person_detections[j].bounding_box
          IN  /\ run.face_detections[i] \notin Range(run.searched)
              /\ f.y + f.height \div 2 > p.y + p.height

\* the IoU of the two boxes is at most 0.3
IoUAtMost03(b1, b2) == 10 * Intersection(b1, b2) <= 3 * Union(b1, b2)

\* the bodies, of those the secondary search found (in order), that are
\* appended when each is taken if and only if its IoU with every existing
\* person and with every body taken before it is at most 0.3
RECURSIVE Deduplicated(_, _, _)
Deduplicated(found, existing, added) ==
    IF found = <<>> THEN added
    ELSE Deduplicated(Tail(found), existing,
             IF \A o \in Range(existing) \cup Range(added) :
                    IoUAtMost03(Head(found).bounding_box, o.bounding_box)
             THEN Append(added, Head(found)) ELSE added)

\* C25: of the bodies the secondary search finds, one is appended to the
\* person list if and only if its IoU with every existing person and with
\* every body appended before it is at most 0.3; so no appended body has an
\* IoU above 0.3 with another person of the list.
C25_AddedBodiesDeduplicated ==
    Reconciled =>
        /\ run.enhanced = Deduplicated(run.candidates, run.person_detections, <<>>)
        /\ OfType(run.all_detections, PERSON) = run.person_detections \o run.enhanced
        /\ LET P == run.person_detections \o run.enhanced
           IN  \A i \in 1..Len(P) : \A j \in 1..Len(P) :
                  (i # j /\ j > Len(run.person_detections))
                      => IoUAtMost03(P[i].bounding_box, P[j].bounding_box)

\* three bodies were found: one was appended, one was dropped for a person
\* that was there before, one for a body appended before it
C25_Witness ==
    /\ Reconciled
    /\ run.enhanced # <<>>
    /\ \E k \in 1..Len(run.candidates) :
          /\ run.candidates[k] \notin Range(run.enhanced)
          /\ \E p \in Range(run.person_detections) :
                ~IoUAtMost03(run.candidates[k].bounding_box, p.bounding_box)
    /\ \E k \in 1..Len(run.candidates) :
          /\ run.candidates[k] \in Range(run.enhanced)
          /\ \E l \in 1..(k - 1) : run.candidates[l] = run.candidates[k]

\* C26: with enforce_consistency off, when 3 faces and 1 person pass the
\* threshold filter and the secondary search appends 2 bodies, the response
\* holds exactly 3 persons and at most 3 faces.
C26_ThreeFacesThreePersons ==
    (/\ Responded /\ ~enforce_consistency /\ ~run.failed
     /\ Len(run.face_detections) = 3
     /\ Len(run.person_detections) = 1
     /\ Len(run.enhanced) = 2)
        => /\ Count(response.detections, PERSON) = 3
           /\ Count(response.detections, FACE) <= 3

(***************************************************************************)
(* Properties of the crop geometry (specification SpecCrop)                *)
(***************************************************************************)
Cropped == cpc = "done"

\* calculate_crop_coordinates returned its BoundingBox
Returned == Cropped /\ ~crop.raised

ImgW == crop_args.image_size[1]
ImgH == crop_args.image_size[2]
RatioW == crop_args.target_aspect_ratio[1]
RatioH == crop_args.target_aspect_ratio[2]

Abs(n) == IF n < 0 THEN -n ELSE n

Clamp(v, lo, hi) == Max2(lo, Min2(v, hi))

\* the box enclosing the boxes of a non-empty detection list
Enclosing(dets) ==
    LET left == MinOf({ dets[i].bounding_box.x : i \in 1..Len(dets) })
        top == MinOf({ dets[i].bounding_box.y : i \in 1..Len(dets) })
        right == MaxOf({ dets[i].bounding_box.x + dets[i].bounding_box.width :
                           i \in 1..Len(dets) })
        bottom == MaxOf({ dets[i].bounding_box.y + dets[i].bounding_box.height :
                            i \in 1..Len(dets) })
    IN  Box(left, top, right - left, bottom - top)

\* box inner lies in box outer
Inside(inner, outer) ==
    /\ outer.x <= inner.x
    /\ inner.x + inner.width <= outer.x + outer.width
    /\ outer.y <= inner.y
    /\ inner.y + inner.height <= outer.y + outer.height

\* C4: the rectangle calculate_crop_coordinates returns lies inside the
\* image, for every size, ratio, strategy and detection list.
C4_CropInsideImage ==
    Returned =>
        /\ 0 <= crop.x /\ crop.x + crop.width <= ImgW
        /\ 0 <= crop.y /\ crop.y + crop.height <= ImgH

\* a detection reaches beyond the image, the crop is narrower than the
\* image and the final clamp moved it
C4_Witness ==
    /\ Returned
    /\ crop_args.strategy # CENTER
    /\ \E i \in 1..Len(crop_args.detections) :
          crop_args.detections[i].bounding_box.x
              + crop_args.detections[i].bounding_box.width > ImgW
    /\ crop.width < ImgW
    /\ CropPosition(crop_args, crop.width, crop.height).x # crop.x

\* |width/height - tw/th| < 0.02 for the returned crop
WithinTolerance == 100 * Abs(crop.width * RatioH - crop.height * RatioW)
                       < 2 * crop.height * RatioH

\* C5 (as claimed): for every image and ratio the returned crop's
\* width/height differs from tw/th by less than 0.02.
C5_RatioWithinTolerance == Returned => WithinTolerance

\* C5 (amended): width/height differs from tw/th by at most
\* max(1, tw/th) / height, the loss of one truncated pixel, and hence by
\* less than 0.02 when height > 50 * max(1, tw/th).
C5_RatioWithinOnePixel ==
    Returned =>
        /\ Abs(crop.width * RatioH - crop.height * RatioW) <= Max2(RatioW, RatioH)
        /\ (crop.height * RatioH > 50 * Max2(RatioW, RatioH) => WithinTolerance)

\* a crop tall enough for the tolerance whose ratio is not exact
C5_Witness ==
    /\ Returned
    /\ crop.height * RatioH > 50 * Max2(RatioW, RatioH)
    /\ crop.width * RatioH # crop.height * RatioW

\* C6 (as claimed): calculate_crop_coordinates never raises and returns a
\* rectangle of width >= 1 and height >= 1 that spans the image's width or
\* its height.
C6_AlwaysValidRectangle ==
    Cropped =>
        /\ ~crop.raised
        /\ crop.width >= 1 /\ crop.height >= 1
        /\ (crop.width = ImgW \/ crop.height = ImgH)

\* C7: under CENTER, and under every strategy without detections, the crop
\* sits at ((W - cw) // 2, (H - ch) // 2); 800x600 to 16:9 gives x=0, y=75,
\* width=800, height=450.
C7_CenterOffset ==
    (Returned /\ (crop_args.strategy = CENTER \/ NoDetections(crop_args))) =>
        /\ crop.x = (ImgW - crop.width) \div 2
        /\ crop.y = (ImgH - crop.height) \div 2
        /\ (crop_args.image_size = <<800, 600>>
              /\ crop_args.target_aspect_ratio = <<16, 9>>)
           => (crop.x = 0 /\ crop.y = 75 /\ crop.width = 800 /\ crop.height = 450)

\* the 800x600 image cropped to 16:9
C7_Witness ==
    /\ Returned
    /\ crop_args.strategy = CENTER
    /\ crop_args.image_size = <<800, 600>>
    /\ crop_args.target_aspect_ratio = <<16, 9>>
    /\ crop.y = 75 /\ crop.height = 450

\* the detections CENTER_FACES is to use: the faces, or else the persons
Preferred(dets) ==
    IF \E i \in 1..Len(dets) : dets[i].type = FACE
    THEN SelectSeq(dets, LAMBDA d : d.type = FACE)
    ELSE SelectSeq(dets, LAMBDA d : d.type = PERSON)

\* the crop position (x or y) that centering on the detections dets gives
CenteredOn(dets) ==
    LET c == center_on_detections(dets, crop.width, crop.height, ImgW, ImgH)
    IN  [x |-> Clamp(c.x, 0, ImgW - crop.width),
         y |-> Clamp(c.y, 0, ImgH - crop.height)]

\* C8: under CENTER_FACES the crop is centered on the faces alone when
\* there is a face (the persons have no influence), on the persons when
\* there is none, and is the Center position without detections.
C8_FacesBeforePersons ==
    (Returned /\ crop_args.strategy = CENTER_FACES) =>
        IF NoDetections(crop_args)
        THEN /\ crop.x = (ImgW - crop.width) \div 2
             /\ crop.y = (ImgH - crop.height) \div 2
        ELSE /\ crop.x = CenteredOn(Preferred(crop_args.detections)).x
             /\ crop.y = CenteredOn(Preferred(crop_args.detections)).y
             /\ crop = calculate_crop_coordinates(
                          [crop_args EXCEPT !.detections = Preferred(@)])

\* a face of positive weight and a person are given, and centering on both
\* would move the crop
C8_Witness ==
    /\ Returned
    /\ crop_args.strategy = CENTER_FACES
    /\ OfType(crop_args.detections, FACE) # <<>>
    /\ OfType(crop_args.detections, PERSON) # <<>>
    /\ TotalWeight(OfType(crop_args.detections, FACE)) > 0
    /\ CenteredOn(crop_args.detections).x # crop.x

\* the detections lie in the image and their enclosing box fits the crop
FitsCrop ==
    /\ ~NoDetections(crop_args)
    /\ \A i \in 1..Len(crop_args.detections) :
          Inside(crop_args.detections[i].bounding_box, Box(0, 0, ImgW, ImgH))
    /\ Enclosing(crop_args.detections).width <= crop.width
    /\ Enclosing(crop_args.detections).height <= crop.height

\* C9: under PRESERVE_ALL, when the detections lie in the image and their
\* enclosing box is no wider and no taller than the crop, the returned crop
\* contains every detection box.
C9_PreserveAllContains ==
    (Returned /\ crop_args.strategy = PRESERVE_ALL /\ FitsCrop) =>
        \A i \in 1..Len(crop_args.detections) :
            Inside(crop_args.detections[i].bounding_box, crop)

\* two boxes are kept by a crop that is narrower than the image and not at
\* its left edge
C9_Witness ==
    /\ Returned /\ crop_args.strategy = PRESERVE_ALL /\ FitsCrop
    /\ Cardinality({ crop_args.detections[i].bounding_box :
                       i \in 1..Len(crop_args.detections) }) > 1
    /\ crop.width < ImgW
    /\ crop.x > 0

\* the area two boxes share
Overlap(b1, b2) ==
    LET w == Min2(b1.x + b1.width, b2.x + b2.width) - Max2(b1.x, b2.x)
        h == Min2(b1.y + b1.height, b2.y + b2.height) - Max2(b1.y, b2.y)
    IN  IF w <= 0 \/ h <= 0 THEN 0 ELSE w * h

\* the enclosing box of the detections is wider or taller than the crop
ExceedsCrop ==
    /\ ~NoDetections(crop_args)
    /\ \/ Enclosing(crop_args.detections).width > crop.width
       \/ Enclosing(crop_args.detections).height > crop.height

\* C10: under PRESERVE_ALL, when the enclosing box of the detections is
\* wider or taller than the crop, the crop keeps the size that image and
\* ratio fix, is centered on the center of the enclosing box and clamped to
\* the image, and no crop of this size inside the image covers more of the
\* enclosing box.
C10_OversizeBestCoverage ==
    (Returned /\ crop_args.strategy = PRESERVE_ALL /\ ExceedsCrop) =>
        LET e == Enclosing(crop_args.detections)
            plain == calculate_crop_coordinates(
                         [crop_args EXCEPT !.strategy = CENTER])
        IN  /\ crop.width = plain.width /\ crop.height = plain.height
            /\ crop.x = Clamp((e.x + e.x + e.width) \div 2 - crop.width \div 2,
                              0, ImgW - crop.width)
            /\ crop.y = Clamp((e.y + e.y + e.height) \div 2 - crop.height \div 2,
                              0, ImgH - crop.height)
            /\ \A px \in 0..(ImgW - crop.width), py \in 0..(ImgH - crop.height) :
                  Overlap(Box(px, py, crop.width, crop.height), e)
                      <= Overlap(crop, e)

\* the enclosing box is wider than the image, fits the crop's height, and
\* the crop can move along the image's height
C10_Witness ==
    /\ Returned /\ crop_args.strategy = PRESERVE_ALL /\ ExceedsCrop
    /\ Enclosing(crop_args.detections).width > ImgW
    /\ Enclosing(crop_args.detections).height <= crop.height
    /\ crop.height < ImgH
    /\ Overlap(crop, Enclosing(crop_args.detections)) > 0

(***************************************************************************)
(* Properties of the sheet composition (specification SpecSheet)           *)
(***************************************************************************)
\* a sheet operation returned a plan
Placed == spc = "done" /\ sheet.status = "ok"

GivenImages == sheet_request.processed_images
SheetRows == sheet_request.grid_layout.rows
SheetColumns == sheet_request.grid_layout.columns
Capacity == SheetRows * SheetColumns

\* the cell size of the sheet of the request
SheetCell ==
    LET dims == get_sheet_dimensions(sheet_request.sheet_orientation)
    IN  calculate_cell_dimensions(dims.width, dims.height, sheet_request.grid_layout)

\* the left and top edge of the grid cell of the image with index i
CellLeft(i) == MARGIN_PX + (i % SheetColumns) * SheetCell.width
CellTop(i) == MARGIN_PX + (i \div SheetColumns) * SheetCell.height

\* rectangle p lies in the cell of image i shrunk by pad pixels on each side
InCell(p, i, pad) ==
    /\ p.width >= 1 /\ p.height >= 1
    /\ CellLeft(i) + pad <= p.x
    /\ p.x + p.width <= CellLeft(i) + SheetCell.width - pad
    /\ CellTop(i) + pad <= p.y
    /\ p.y + p.height <= CellTop(i) + SheetCell.height - pad

Disjoint(p, q) ==
    \/ p.x + p.width <= q.x
    \/ q.x + q.width <= p.x
    \/ p.y + p.height <= q.y
    \/ q.y + q.height <= p.y

InsideMargins(p) ==
    LET dims == get_sheet_dimensions(sheet_request.sheet_orientation)
    IN  /\ MARGIN_PX <= p.x /\ p.x + p.width <= dims.width - MARGIN_PX
        /\ MARGIN_PX <= p.y /\ p.y + p.height <= dims.height - MARGIN_PX

\* C11: the pixel placements of a plan are pairwise disjoint rectangles,
\* each inside its own grid cell shrunk by the 20-pixel padding, hence
\* inside the page minus the margin.
C11_SheetNonOverlap ==
    Placed =>
        /\ \A k \in 1..Len(sheet.arranged) :
              /\ InCell(sheet.arranged[k], k - 1, PADDING_PX)
              /\ InsideMargins(sheet.arranged[k])
        /\ \A k, l \in 1..Len(sheet.arranged) :
              k # l => Disjoint(sheet.arranged[k], sheet.arranged[l])

\* three images on two rows of a grid, one of them filling the padded cell
\* in one direction
C11_Witness ==
    /\ Placed
    /\ Len(sheet.arranged) = 3
    /\ SheetRows = 2 /\ SheetColumns = 2
    /\ \E k \in 1..3 : sheet.arranged[k].x = CellLeft(k - 1) + PADDING_PX
    /\ \E k \in 1..3 : sheet.arranged[k].y > CellTop(k - 1) + PADDING_PX

\* C12: of N images the plan holds those with index i < min(N, rows x
\* columns), in input order, image i in cell (i // columns, i % columns);
\* a 2x2 grid with 3 images fills (0,0), (0,1), (1,0) and reports 3 images.
C12_RowMajorPlan ==
    Placed =>
        /\ Len(sheet.arranged) = Min2(Len(GivenImages), Capacity)
        /\ \A k \in 1..Len(sheet.arranged) :
              LET p == sheet.arranged[k]
                  fit == resize_image_to_fit(GivenImages[k], SheetCell.width,
                                             SheetCell.height)
              IN  /\ p.index = k - 1
                  /\ p.width = fit.width /\ p.height = fit.height
                  /\ InCell(p, k - 1, 0)
        /\ sheet_op # "arrange_images_in_grid" =>
              sheet.images_used = SubSeq(GivenImages, 1, Min2(Len(GivenImages), Capacity))
        /\ (SheetRows = 2 /\ SheetColumns = 2 /\ Len(GivenImages) = 3) =>
              /\ Len(sheet.arranged) = 3
              /\ sheet.arranged[3].y >= MARGIN_PX + SheetCell.height
              /\ sheet.arranged[3].x + sheet.arranged[3].width <= MARGIN_PX + SheetCell.width

\* _arrange_images_in_grid is handed more images than the grid has cells
\* and stops at the last cell
C12_Witness ==
    /\ Placed
    /\ sheet_op = "arrange_images_in_grid"
    /\ Capacity >= 2
    /\ Len(GivenImages) > Capacity
    /\ Len(sheet.arranged) = Capacity

\* an image the composition can place: the file opens and its resized size
\* is not empty
Usable(image) ==
    /\ image.state = "ok"
    /\ ~resize_image_to_fit(image, SheetCell.width, SheetCell.height).raised

\* C13: a compose-sheet request with more images than rows x columns is not
\* rejected for it; it succeeds with the first rows x columns images, and
\* images_used has exactly rows x columns entries.
C13_ExcessTruncated ==
    (spc = "done" /\ sheet_op = "compose_sheet" /\ Len(GivenImages) > Capacity) =>
        /\ sheet.error # "too_many"
        /\ (\A k \in 1..Capacity : Usable(GivenImages[k])) => sheet.status = "ok"
        /\ sheet.status = "ok" =>
              /\ sheet.images_used = SubSeq(GivenImages, 1, Capacity)
              /\ Len(sheet.images_used) = Capacity
              /\ Len(sheet.arranged) = Capacity

\* the request succeeds although an image beyond the grid does not exist
C13_Witness ==
    /\ spc = "done" /\ sheet_op = "compose_sheet"
    /\ Len(GivenImages) > Capacity
    /\ GivenImages[Capacity + 1].state = "missing"
    /\ sheet.status = "ok"
    /\ Len(sheet.images_used) = Capacity

\* a composition returned a PDF plan
PdfPlaced == Placed /\ sheet_request.output_format = PDF

PdfPageHeight ==
    IF sheet_request.sheet_orientation = PORTRAIT THEN A4_HEIGHT_PT ELSE A4_WIDTH_PT

PdfPageWidth ==
    IF sheet_request.sheet_orientation = PORTRAIT THEN A4_WIDTH_PT ELSE A4_HEIGHT_PT

PdfCellWidth == (PdfPageWidth - 2 * MARGIN_PT) \div SheetColumns
PdfCellHeight == (PdfPageHeight - 2 * MARGIN_PT) \div SheetRows

\* two lengths in hundredths of a point that differ by at most 3 points:
\* more than the pixel cells and the point cells of one grid can differ by
\* (a pixel cell loses less than one pixel, 0.24 point, to the floor
\* division, over at most 9 cells, and the two pages differ by 0.08 point)
Near(a, b) == Abs(a - b) <= 300

\* C14: the PDF target puts image i in the same grid cell as the pixel
\* canvas, row 0 on top, centered, and scaled with the same padding rule, so
\* that its rectangle is the rectangle of the pixel canvas up to the change
\* of unit (1 pixel = 0.24 point) and the flip of the Y axis.
C14_SameGeometry ==
    PdfPlaced =>
        \A k \in 1..Len(sheet.arranged) :
           LET p == sheet.arranged[k]
               q == sheet.pdf[k]
               cell_left == MARGIN_PT + ((k - 1) % SheetColumns) * PdfCellWidth
               cell_top == MARGIN_PT + ((k - 1) \div SheetColumns) * PdfCellHeight
               q_top == PdfPageHeight - (q.y + q.height)
           IN  /\ cell_left <= q.x /\ q.x + q.width <= cell_left + PdfCellWidth
               /\ cell_top <= q_top /\ q_top + q.height <= cell_top + PdfCellHeight
               /\ Abs((q.x - cell_left) - (cell_left + PdfCellWidth - q.x - q.width)) <= 1
               /\ Abs((q_top - cell_top) - (cell_top + PdfCellHeight - q_top - q.height)) <= 1
               /\ Near(q.x, p.x * PX_TO_PT) /\ Near(q_top, p.y * PX_TO_PT)
               /\ Near(q.width, p.width * PX_TO_PT)
               /\ Near(q.height, p.height * PX_TO_PT)

(***************************************************************************)
(* Properties of global NMS (specification SpecNMS)                        *)
(***************************************************************************)
\* the list handed to the first pass, and what the passes returned
NmsGiven == nms_history[1]
NmsOnce == nms_history[2]
NmsTwice == nms_history[3]

\* C15: global NMS is idempotent: a second pass returns the same set of
\* detections as the first.
C15_NMSIdempotent ==
    Len(nms_history) >= 3 => Range(NmsTwice) = Range(NmsOnce)

\* the first pass removed a detection and kept at least two, which the
\* second pass compares again
C15_Witness ==
    /\ Len(nms_history) >= 3
    /\ Len(NmsOnce) < Len(NmsGiven)
    /\ Len(OfType(NmsOnce, FACE)) >= 2

\* all detections of the list are of one kind and any two of them have an
\* IoU above 0.25
AllOverlapping(dets) ==
    /\ \A i, j \in 1..Len(dets) : dets[i].type = dets[j].type
    /\ \A i, j \in 1..Len(dets) :
          i # j => IoUAbove(dets[i].bounding_box, dets[j].bounding_box, 25, 100)

BatchRan == bpc = "done" /\ batch.status # "ValueError"

BatchSize == Len(batch_request.images)

ProcessedPaths ==
    [k \in 1..Len(batch.lists.processed_images) |->
        batch.lists.processed_images[k].original_path]

FailedPaths ==
    [k \in 1..Len(batch.lists.failed_images) |-> batch.lists.failed_images[k].path]

\* C18: every image of a valid batch is attempted, in input order, and ends
\* in exactly one of processed_images and failed_images; an image that
\* fails does not keep a later image from being processed, and
\* processed_images keeps the input order.
C18_EveryImageAccounted ==
    BatchRan =>
        /\ Len(batch.lists.steps) = BatchSize
        /\ \A i \in 1..BatchSize : batch.lists.steps[i].index = i
        /\ Len(batch.lists.processed_images) + Len(batch.lists.failed_images) = BatchSize
        /\ \A i \in 1..BatchSize :
              (i \in Range(ProcessedPaths)) # (i \in Range(FailedPaths))
        /\ \A i \in 1..BatchSize :
              i \in Range(ProcessedPaths) <=> ProcessImage(batch_request, i).exception = "none"
        /\ \A k, l \in 1..Len(ProcessedPaths) : k < l => ProcessedPaths[k] < ProcessedPaths[l]
        /\ \A k, l \in 1..Len(FailedPaths) : k < l => FailedPaths[k] < FailedPaths[l]

\* the first image fails and the last one is processed
C18_Witness ==
    /\ BatchRan
    /\ BatchSize >= 3
    /\ 1 \in Range(FailedPaths)
    /\ BatchSize \in Range(ProcessedPaths)
    /\ Len(batch.lists.failed_images) >= 2

\* C19: an image whose detection step fails is recorded in failed_images
\* and does not appear in processed_images.
C19_DetectionFailureRecorded ==
    BatchRan =>
        \A i \in 1..BatchSize :
           batch.lists.steps[i].detection_failed =>
              /\ i \in Range(FailedPaths)
              /\ i \notin Range(ProcessedPaths)

\* C20: a batch in which every image fails is an overall failure that
\* carries the failure list and no BatchProcessResult; a batch with at least
\* one success returns a result with the successes and the failure list.
C20_AllFailedIsFailure ==
    BatchRan =>
        /\ batch.lists.processed_images = <<>> =>
              /\ batch.status = "HTTPException"
              /\ batch.failures = batch.lists.failed_images
              /\ Len(batch.failures) = BatchSize
              /\ batch.result = NoResult
        /\ batch.lists.processed_images # <<>> =>
              /\ batch.status = "ok"
              /\ batch.result.processed_images = batch.lists.processed_images
              /\ batch.result.failed_images = batch.lists.failed_images
              /\ Len(batch.result.processed_images) + Len(batch.result.failed_images)
                    = BatchSize

\* a result with one success and two failures
C20_Witness ==
    /\ BatchRan
    /\ batch.status = "ok"
    /\ Len(batch.result.processed_images) = 1
    /\ Len(batch.result.failed_images) = 2

(***************************************************************************)
(* Properties of the health counters (specification SpecHealth)            *)
(***************************************************************************)
\* the calls of record_request that have returned
Completed == { c \in Callers : callers[c].pc = "done" }

\* no call of record_request is under way
Quiescent == \A c \in Callers : callers[c].pc \in {"idle", "done"}

\* C23: no update of the health counters is lost: once k calls of
\* record_request have returned and none is under way, request_count = k and
\* request_count = successful_requests + error_count.
C23_NoLostUpdate ==
    Quiescent =>
        /\ health.request_count = Cardinality(Completed)
        /\ health.request_count = health.successful_requests + health.error_count

(***************************************************************************)
(* Properties of the candidate stage (specification SpecCand)              *)
(***************************************************************************)
\* the positions a merge kept
KeptPositions == { cand_result.keep[i] : i \in 1..Len(cand_result.keep) }

\* the positions a merge removed
RemovedPositions == (1..Len(cand_request.candidates)) \ KeptPositions

AreaAt(i) == cand_request.candidates[i].width * cand_request.candidates[i].height

WeightAt(i) == cand_request.candidates[i].weight

\* the candidates at positions i and j have an IoU above 0.2
Overlap02(i, j) ==
    5 * Intersection(cand_request.candidates[i], cand_request.candidates[j])
        > Union(cand_request.candidates[i], cand_request.candidates[j])

\* the candidates at positions i and j have an IoU of exactly 0.2
Exactly02(i, j) ==
    5 * Intersection(cand_request.candidates[i], cand_request.candidates[j])
        = Union(cand_request.candidates[i], cand_request.candidates[j])

\* the list returned is the candidates at the kept positions, each once
KeptIsSubset ==
    /\ KeptPositions \subseteq 1..Len(cand_request.candidates)
    /\ Cardinality(KeptPositions) = Len(cand_result.keep)
    /\ cand_result.kept = [i \in 1..Len(cand_result.keep) |->
                              cand_request.candidates[cand_result.keep[i]]]

FacesMerged == kpc = "done" /\ cand_op = "merge_overlapping_faces"

\* C27: _merge_overlapping_faces is a greedy maximum-area pass.  The output
\* is a subset of the input, taken in descending area; it contains a
\* candidate of the largest area; no two kept candidates have an IoU above
\* 0.2; and a candidate is removed exactly when its IoU with a kept candidate
\* of at least its area exceeds 0.2, so a candidate at an IoU of exactly 0.2
\* with a kept one is not removed for it.
C27_GreedyMaximumArea ==
    FacesMerged =>
        /\ KeptIsSubset
        /\ \A i \in 1..Len(cand_result.keep) : \A j \in 1..Len(cand_result.keep) :
               (i < j) => AreaAt(cand_result.keep[i]) >= AreaAt(cand_result.keep[j])
        /\ (cand_request.candidates # <<>>) =>
               \E k \in KeptPositions :
                   \A i \in 1..Len(cand_request.candidates) : AreaAt(k) >= AreaAt(i)
        /\ \A k1 \in KeptPositions : \A k2 \in KeptPositions :
               (k1 # k2) => ~Overlap02(k1, k2)
        /\ \A d \in RemovedPositions :
               \E k \in KeptPositions : Overlap02(k, d) /\ AreaAt(k) >= AreaAt(d)

\* a face merge that removed a candidate and kept two candidates whose IoU
\* is exactly 0.2
C27_Witness ==
    /\ FacesMerged
    /\ RemovedPositions # {}
    /\ \E k1 \in KeptPositions : \E k2 \in KeptPositions : k1 # k2 /\ Exactly02(k1, k2)

PersonsMerged == kpc = "done" /\ cand_op = "merge_overlapping_persons"

\* every two of the candidates have an IoU above 0.2
MutuallyOverlapping ==
    /\ Len(cand_request.candidates) >= 2
    /\ \A i \in 1..Len(cand_request.candidates) :
           \A j \in 1..Len(cand_request.candidates) : (i # j) => Overlap02(i, j)

\* C28 as stated: _merge_overlapping_persons takes the candidates in
\* descending area, and among person candidates that mutually overlap with
\* an IoU above 0.2 the one retained is the one of largest area.
C28_LargestAreaRetained ==
    PersonsMerged =>
        /\ \A i \in 1..Len(cand_result.keep) : \A j \in 1..Len(cand_result.keep) :
               (i < j) => AreaAt(cand_result.keep[i]) >= AreaAt(cand_result.keep[j])
        /\ MutuallyOverlapping =>
               /\ Len(cand_result.keep) = 1
               /\ \A i \in 1..Len(cand_request.candidates) :
                      AreaAt(cand_result.keep[1]) >= AreaAt(i)

\* C28 amended: _merge_overlapping_persons takes the candidates in
\* descending weight and repeatedly keeps the remaining candidate of highest
\* weight, and among person candidates that mutually overlap with an IoU
\* above 0.2 the one retained is the one of highest weight.
C28_HighestWeightRetained ==
    PersonsMerged =>
        /\ KeptIsSubset
        /\ \A i \in 1..Len(cand_result.keep) : \A j \in 1..Len(cand_result.keep) :
               (i < j) => WeightAt(cand_result.keep[i]) >= WeightAt(cand_result.keep[j])
        /\ \A d \in RemovedPositions :
               \E k \in KeptPositions : Overlap02(k, d) /\ WeightAt(k) >= WeightAt(d)
        /\ MutuallyOverlapping =>
               /\ Len(cand_result.keep) = 1
               /\ \A i \in 1..Len(cand_request.candidates) :
                      WeightAt(cand_result.keep[1]) >= WeightAt(i)

\* a person merge of mutually overlapping candidates that retained one of
\* smaller area and higher weight than a candidate it removed
C28_Witness ==
    /\ PersonsMerged
    /\ MutuallyOverlapping
    /\ \E d \in RemovedPositions :
           /\ AreaAt(d) > AreaAt(cand_result.keep[1])
           /\ WeightAt(d) < WeightAt(cand_result.keep[1])

HogRan == kpc = "done" /\ cand_op = "detect_with_hog"

\* C30: in _detect_with_hog the decisions are independent.  After the
\* overlap merge a candidate is emitted as a person exactly when its own
\* rectangle and weight pass the filters and the threshold for the image
\* size and form a valid box; a candidate that is rejected or cannot form a
\* valid box is dropped on its own, and the other acceptable candidates are
\* all in the result.
C30_IndependentDecisions ==
    HogRan =>
        /\ \A i \in 1..Len(cand_result.kept) :
               (HogDecision(cand_result.kept[i], cand_request.image) = "emit") =>
                   HogDetection(cand_result.kept[i], cand_request.image)
                       \in Range(cand_result.results)
        /\ \A d \in Range(cand_result.results) :
               \E i \in 1..Len(cand_result.kept) :
                   /\ HogDecision(cand_result.kept[i], cand_request.image) = "emit"
                   /\ d = HogDetection(cand_result.kept[i], cand_request.image)

=============================================================================
